---- MODULE Spec2Model ----
(***************************************************************************)
(* A model of samply's post-capture processing (samply/src/shared):        *)
(*   - marker_file.rs: the span/event log correlator (SpanTracker,         *)
(*     MarkerFile, get_markers);                                           *)
(*   - process_sample_data.rs: ProcessSampleData::flush_samples_to_profile *)
(*     and the replay of library mapping ops it drives.                    *)
(* Text is modelled as sequences of one-character strings so that the      *)
(* parsing the code does (split_once, rfind, parse) is computed, not       *)
(* assumed.  Option<T> is modelled as a set with at most one element.      *)
(***************************************************************************)
EXTENDS Integers, Sequences, FiniteSets, TLC

----------------------------------------------------------------------------
(* Option<T> *)

None == {}

Some(v) == {v}

IsSome(o) == o # {}

Unwrap(o) == CHOOSE v \in o : TRUE

----------------------------------------------------------------------------
(* Text helpers: str::split_once, str::parse, format! *)

Digits == <<"0", "1", "2", "3", "4", "5", "6", "7", "8", "9">>

IsDigit(c) == \E i \in 1..Len(Digits) : Digits[i] = c

DigitValue(c) == (CHOOSE i \in 1..Len(Digits) : Digits[i] = c) - 1

\* position of the first occurrence of c in s, 0 when there is none
IndexOf(s, c) ==
    IF \E i \in 1..Len(s) : s[i] = c
    THEN CHOOSE i \in 1..Len(s) : s[i] = c /\ \A j \in 1..(i - 1) : s[j] # c
    ELSE 0

\* str::split_once(c): the text before and after the first c
split_once(s, c) ==
    LET i == IndexOf(s, c)
    IN  IF i = 0 THEN None
        ELSE Some(<<SubSeq(s, 1, i - 1), SubSeq(s, i + 1, Len(s))>>)

RECURSIVE DecimalValue(_)
DecimalValue(s) ==
    IF s = <<>> THEN 0
    ELSE 10 * DecimalValue(SubSeq(s, 1, Len(s) - 1)) + DigitValue(s[Len(s)])

\* str::parse::<u64>() on decimal text: digits only, at least one
parse_u64(s) ==
    IF s # <<>> /\ \A i \in 1..Len(s) : IsDigit(s[i])
    THEN Some(DecimalValue(s)) ELSE None

\* str::parse::<i32>(): an optional minus sign, then digits
parse_i32(s) ==
    IF s # <<>> /\ s[1] = "-"
    THEN (IF IsSome(parse_u64(Tail(s))) THEN Some(0 - Unwrap(parse_u64(Tail(s)))) ELSE None)
    ELSE parse_u64(s)

RECURSIVE to_string(_)
\* u64/i32 Display
to_string(n) ==
    IF n < 0 THEN <<"-">> \o to_string(0 - n)
    ELSE IF n < 10 THEN <<Digits[n + 1]>>
    ELSE to_string(n \div 10) \o <<Digits[(n % 10) + 1]>>

----------------------------------------------------------------------------
(* Words of the span log *)

S_new == <<"n", "e", "w">>

S_close == <<"c", "l", "o", "s", "e">>

S_enter == <<"e", "n", "t", "e", "r">>

S_exit == <<"e", "x", "i", "t">>

\* impl Display for SpanType
SpanTypeName(span_type) ==
    IF span_type = "Running"
    THEN <<"R", "u", "n", "n", "i", "n", "g">>
    ELSE <<"T", "o", "t", "a", "l">>

----------------------------------------------------------------------------
(* TimestampConverter::convert_time: raw monotonic ticks to profile time,   *)
(* a monotone map that saturates at the reference time.                     *)

ReferenceRaw == 1

RawToNsFactor == 2

convert_time(raw) ==
    (IF raw > ReferenceRaw THEN raw - ReferenceRaw ELSE 0) * RawToNsFactor

----------------------------------------------------------------------------
(* serde_json::Value.  A scalar is [str |-> text] or [num |-> n]; an object *)
(* is a function from keys to scalars.  A parsed log line is the record     *)
(*   [timestamp : Option(scalar), target : Option(scalar),                  *)
(*    fields : Option(object), span : Option(object), at : line number]     *)
(* where `at` is the position of the line in the input; the program never   *)
(* reads it, the properties use it to name the records a marker comes from. *)

JStr(s) == [str |-> s]

JNum(n) == [num |-> n]

\* Value::as_str
as_str(v) == IF "str" \in DOMAIN v THEN Some(v.str) ELSE None

\* Value::to_string of a scalar that is not a string
json_to_string(v) == to_string(v.num)

HasKey(obj, k) == k \in DOMAIN obj

RemoveKey(obj, k) == [x \in (DOMAIN obj) \ {k} |-> obj[x]]

\* u64 subtraction wraps modulo 2^64 when overflow checks are off; the model
\* keeps the wrap-around with the width scaled to what TLC's integers hold.
U64Modulus == 2 ^ 30

\* MarkerFile::read_timestamp_from_event; None stands for a panic
\* (a missing key, a non-string value or a non-numeric string)
read_timestamp_from_event(json) ==
    IF IsSome(json.timestamp) /\ IsSome(as_str(Unwrap(json.timestamp)))
    THEN parse_u64(Unwrap(as_str(Unwrap(json.timestamp))))
    ELSE None

\* MarkerFile::value_to_hashmap
value_to_hashmap(value) ==
    [k \in DOMAIN value |->
        IF IsSome(as_str(value[k])) THEN Unwrap(as_str(value[k]))
        ELSE json_to_string(value[k])]

----------------------------------------------------------------------------
(* parse_timing_field: "<number><unit>" to a Duration, in nanoseconds.      *)
(* The result is [panic |-> BOOLEAN, value |-> Option(ns)].                 *)

\* field_str.rfind(|c| c.is_numeric() || c == '.'), 0 when there is none
LastNumericIndex(s) ==
    IF \E i \in 1..Len(s) : IsDigit(s[i]) \/ s[i] = "."
    THEN CHOOSE i \in 1..Len(s) :
            /\ (IsDigit(s[i]) \/ s[i] = ".")
            /\ \A j \in (i + 1)..Len(s) : ~(IsDigit(s[j]) \/ s[j] = ".")
    ELSE 0

\* str::replace('µ', "u")
ReplaceMicro(s) == [i \in 1..Len(s) |-> IF s[i] = "µ" THEN "u" ELSE s[i]]

\* a match that reads every known unit as nanoseconds
UnitNanos_AllNanos(unit) ==
    IF unit \in {<<"s">>, <<"m", "s">>, <<"u", "s">>, <<"n", "s">>} THEN 1 ELSE 0

\* nanoseconds per unit; 0 for a unit the match does not know
UnitNanos(unit) ==
    IF unit = <<"s">> THEN 1000000000
    ELSE IF unit = <<"m", "s">> THEN 1000000
    ELSE IF unit = <<"u", "s">> THEN 1000
    ELSE IF unit = <<"n", "s">> THEN 1
    ELSE 0

\* the decimal texts num.parse::<f64>() accepts among texts of digits and
\* dots: at least one digit, at most one dot
IsDecimalNumber(num) ==
    /\ \A i \in 1..Len(num) : IsDigit(num[i]) \/ num[i] = "."
    /\ \E i \in 1..Len(num) : IsDigit(num[i])
    /\ Cardinality({i \in 1..Len(num) : num[i] = "."}) <= 1

RECURSIVE Pow10(_)
Pow10(n) == IF n = 0 THEN 1 ELSE 10 * Pow10(n - 1)

\* Duration::from_secs_f64(num / divisor), in nanoseconds
DecimalToNanos(num, unit_nanos) ==
    LET dot == IndexOf(num, ".")
        int_part == IF dot = 0 THEN num ELSE SubSeq(num, 1, dot - 1)
        frac_part == IF dot = 0 THEN <<>> ELSE SubSeq(num, dot + 1, Len(num))
    IN  DecimalValue(int_part) * unit_nanos
        + (DecimalValue(frac_part) * unit_nanos) \div Pow10(Len(frac_part))

parse_timing_field(fields, field) ==
    IF ~HasKey(fields, field) THEN [panic |-> FALSE, value |-> None]
    ELSE IF ~IsSome(as_str(fields[field])) THEN [panic |-> TRUE, value |-> None]
    ELSE
        LET field_str == ReplaceMicro(Unwrap(as_str(fields[field])))
            end_idx == LastNumericIndex(field_str)
            num == SubSeq(field_str, 1, end_idx)
            unit == SubSeq(field_str, end_idx + 1, Len(field_str))
        IN  IF end_idx = 0 \/ UnitNanos(unit) = 0 \/ ~IsDecimalNumber(num)
            THEN [panic |-> TRUE, value |-> None]
            ELSE [panic |-> FALSE, value |-> Some(DecimalToNanos(num, UnitNanos(unit)))]

----------------------------------------------------------------------------
(* SpanTracker: [start_keyword, end_keyword, started_span_cache]            *)

\* SpanTracker::new
SpanTracker_new(start_keyword, end_keyword) ==
    [start_keyword |-> start_keyword, end_keyword |-> end_keyword,
     started_span_cache |-> <<>>]

\* json.get("fields")?.get("message")?.as_str()?
MessageOf(json) ==
    IF IsSome(json.fields) /\ HasKey(Unwrap(json.fields), "message")
    THEN as_str(Unwrap(json.fields)["message"])
    ELSE None

\* SpanTracker::process_line with a completed start left in the cache
SpanTracker_process_line_KeepsStart(tracker, id, json) ==
    LET message == MessageOf(json)
        span_exists == id \in DOMAIN tracker.started_span_cache
        expected_keyword ==
            IF span_exists THEN tracker.end_keyword ELSE tracker.start_keyword
    IN  IF ~IsSome(message) \/ Unwrap(message) # expected_keyword
        THEN [tracker |-> tracker, pair |-> None]
        ELSE IF span_exists
        THEN [tracker |-> tracker,
              pair |-> Some(<<tracker.started_span_cache[id], json>>)]
        ELSE [tracker |->
                [tracker EXCEPT !.started_span_cache =
                    (id :> json) @@ tracker.started_span_cache],
              pair |-> None]

\* SpanTracker::process_line without the expected-keyword check: a keyword of
\* an id with nothing pending is stored as a start
SpanTracker_process_line_StoresEnd(tracker, id, json) ==
    LET message == MessageOf(json)
        span_exists == id \in DOMAIN tracker.started_span_cache
    IN  IF ~IsSome(message)
           \/ (Unwrap(message) # tracker.start_keyword
               /\ Unwrap(message) # tracker.end_keyword)
           \/ (span_exists /\ Unwrap(message) # tracker.end_keyword)
        THEN [tracker |-> tracker, pair |-> None]
        ELSE IF span_exists
        THEN [tracker |->
                [tracker EXCEPT !.started_span_cache =
                    RemoveKey(tracker.started_span_cache, id)],
              pair |-> Some(<<tracker.started_span_cache[id], json>>)]
        ELSE [tracker |->
                [tracker EXCEPT !.started_span_cache =
                    (id :> json) @@ tracker.started_span_cache],
              pair |-> None]

\* SpanTracker::process_line where a second start replaces the pending one
SpanTracker_process_line_ReplacesStart(tracker, id, json) ==
    LET message == MessageOf(json)
        span_exists == id \in DOMAIN tracker.started_span_cache
    IN  IF ~IsSome(message)
           \/ (Unwrap(message) # tracker.start_keyword
               /\ Unwrap(message) # tracker.end_keyword)
           \/ (~span_exists /\ Unwrap(message) # tracker.start_keyword)
        THEN [tracker |-> tracker, pair |-> None]
        ELSE IF Unwrap(message) = tracker.end_keyword
        THEN [tracker |->
                [tracker EXCEPT !.started_span_cache =
                    RemoveKey(tracker.started_span_cache, id)],
              pair |-> Some(<<tracker.started_span_cache[id], json>>)]
        ELSE [tracker |->
                [tracker EXCEPT !.started_span_cache =
                    (id :> json) @@ tracker.started_span_cache],
              pair |-> None]

\* SpanTracker::process_line where the end keyword of either convention
\* completes a pending start
SpanTracker_process_line_AnyEndKeyword(tracker, id, json) ==
    LET message == MessageOf(json)
        span_exists == id \in DOMAIN tracker.started_span_cache
    IN  IF ~IsSome(message) THEN [tracker |-> tracker, pair |-> None]
        ELSE IF span_exists /\ Unwrap(message) \in {S_close, S_exit}
        THEN [tracker |->
                [tracker EXCEPT !.started_span_cache =
                    RemoveKey(tracker.started_span_cache, id)],
              pair |-> Some(<<tracker.started_span_cache[id], json>>)]
        ELSE IF ~span_exists /\ Unwrap(message) = tracker.start_keyword
        THEN [tracker |->
                [tracker EXCEPT !.started_span_cache =
                    (id :> json) @@ tracker.started_span_cache],
              pair |-> None]
        ELSE [tracker |-> tracker, pair |-> None]

\* SpanTracker::process_line: the tracker afterwards and the completed
\* (start, end) pair, if any
SpanTracker_process_line(tracker, id, json) ==
    LET message == MessageOf(json)
        span_exists == id \in DOMAIN tracker.started_span_cache
        expected_keyword ==
            IF span_exists THEN tracker.end_keyword ELSE tracker.start_keyword
    IN  IF ~IsSome(message) THEN [tracker |-> tracker, pair |-> None]
        ELSE IF Unwrap(message) # tracker.start_keyword
                /\ Unwrap(message) # tracker.end_keyword
        THEN [tracker |-> tracker, pair |-> None]
        ELSE IF Unwrap(message) # expected_keyword
        THEN [tracker |-> tracker, pair |-> None]
        ELSE IF span_exists
        THEN [tracker |->
                [tracker EXCEPT !.started_span_cache =
                    RemoveKey(tracker.started_span_cache, id)],
              pair |-> Some(<<tracker.started_span_cache[id], json>>)]
        ELSE [tracker |->
                [tracker EXCEPT !.started_span_cache =
                    (id :> json) @@ tracker.started_span_cache],
              pair |-> None]

----------------------------------------------------------------------------
(* MarkerFile.  An EventOrSpanMarker is the record                          *)
(*   [start_time, message, target, extra_fields, marker_data,               *)
(*    start_at, end_at]                                                     *)
(* with marker_data = [kind |-> "Event"] or a MarkerSpan                    *)
(*   [kind |-> "Span", span_type, end_time, timings, category,              *)
(*    profiler_label, stats_label];                                         *)
(* start_at/end_at are the line numbers of the records it was built from    *)
(* (history only).  A result with panic = TRUE stands for an unwrap() or    *)
(* panic!() that ends the process.                                          *)

\* if id.len() > 8 { id = &id[..8]; }
TruncateId(id) == IF Len(id) > 8 THEN SubSeq(id, 1, 8) ELSE id

\* the (category, profiler_label, stats_label) of process_complete_span;
\* expected format: AtomType[-AtomId]/CollectionType-CollectionID
SpanLabels(action, message, span_type) ==
    LET slash == split_once(action, "/")
    IN  IF IsSome(slash)
        THEN LET atom == Unwrap(slash)[1]
                 collection == Unwrap(slash)[2]
                 dash == split_once(collection, "-")
             IN  IF ~IsSome(dash)
                 THEN [panic |-> TRUE, category |-> atom,
                       profiler_label |-> None, stats_label |-> None]
                 ELSE LET collection_type == Unwrap(dash)[1]
                          id == TruncateId(Unwrap(dash)[2])
                      IN  [panic |-> FALSE,
                           category |-> atom,
                           profiler_label |->
                               Some(collection_type \o <<"-">> \o id \o <<" ">>
                                    \o SpanTypeName(span_type)),
                           stats_label |->
                               Some(collection_type \o <<":", ":">> \o message
                                    \o <<"-">> \o id)]
        ELSE [panic |-> FALSE, category |-> action,
              profiler_label |-> None, stats_label |-> None]

\* Duration::from_nanos(end_time - start_time): the subtraction panics when
\* overflow checks are on and end_time < start_time, and wraps otherwise
WallTime(start_time, end_time, overflow_checks) ==
    IF end_time >= start_time
    THEN [panic |-> FALSE, value |-> end_time - start_time]
    ELSE IF overflow_checks
    THEN [panic |-> TRUE, value |-> 0]
    ELSE [panic |-> FALSE, value |-> U64Modulus + end_time - start_time]

\* MarkerFile::process_complete_span
process_complete_span(span_type, start, end, overflow_checks) ==
    LET fields == Unwrap(end.fields)
        start_ts == read_timestamp_from_event(start)
        end_ts == read_timestamp_from_event(end)
        span_map == value_to_hashmap(Unwrap(end.span))
        message == span_map["name"]
        extra_fields == RemoveKey(span_map, "name")
        action == IF HasKey(extra_fields, "action")
                  THEN extra_fields["action"] ELSE <<"-">>
        labels == SpanLabels(action, message, span_type)
        busy == parse_timing_field(fields, "time.busy")
        wall == WallTime(Unwrap(start_ts), Unwrap(end_ts), overflow_checks)
        idle == parse_timing_field(fields, "time.idle")
    IN  IF \/ ~IsSome(start_ts)
           \/ ~IsSome(end_ts)
           \/ ~IsSome(end.span)
           \/ ~HasKey(span_map, "name")
           \/ labels.panic
           \/ ~IsSome(end.target)
           \/ ~IsSome(as_str(Unwrap(end.target)))
           \/ busy.panic
           \/ wall.panic
           \/ idle.panic
        THEN [panic |-> TRUE, marker |-> None]
        ELSE [panic |-> FALSE,
              marker |-> Some(
                [start_time |-> convert_time(Unwrap(start_ts)),
                 message |-> message,
                 target |-> Unwrap(as_str(Unwrap(end.target))),
                 extra_fields |-> extra_fields,
                 marker_data |->
                    [kind |-> "Span",
                     end_time |-> convert_time(Unwrap(end_ts)),
                     span_type |-> span_type,
                     category |-> labels.category,
                     profiler_label |-> labels.profiler_label,
                     stats_label |-> labels.stats_label,
                     timings |->
                        [time_busy |-> IF IsSome(busy.value)
                                       THEN Unwrap(busy.value) ELSE wall.value,
                         time_idle |-> IF IsSome(idle.value)
                                       THEN Unwrap(idle.value) ELSE 0]],
                 start_at |-> start.at,
                 end_at |-> end.at])]

\* MarkerFile::process_event
process_event(event) ==
    LET ts == read_timestamp_from_event(event)
        extra_fields == value_to_hashmap(Unwrap(event.fields))
    IN  IF \/ ~IsSome(ts)
           \/ ~IsSome(event.target)
           \/ ~IsSome(as_str(Unwrap(event.target)))
           \/ ~IsSome(event.fields)
        THEN [panic |-> TRUE, marker |-> None]
        ELSE IF ~HasKey(extra_fields, "message")
        THEN [panic |-> FALSE, marker |-> None]
        ELSE [panic |-> FALSE,
              marker |-> Some(
                [start_time |-> convert_time(Unwrap(ts)),
                 message |-> extra_fields["message"],
                 target |-> Unwrap(as_str(Unwrap(event.target))),
                 extra_fields |-> RemoveKey(extra_fields, "message"),
                 marker_data |-> [kind |-> "Event"],
                 start_at |-> event.at,
                 end_at |-> event.at])]

\* end["span"]["tid"] = serde_json::Value::from(tid): a missing "span"
\* becomes an object holding only the tid
SetSpanTid(end, tid) ==
    [end EXCEPT !.span =
        Some(("tid" :> JNum(tid))
             @@ (IF IsSome(end.span) THEN Unwrap(end.span) ELSE <<>>))]

\* the "<id>[,<tid>]" prefix of a line: None when a number does not parse
ParseIds(ids) ==
    LET comma == split_once(ids, ",")
    IN  IF IsSome(comma)
        THEN IF IsSome(parse_u64(Unwrap(comma)[1])) /\ IsSome(parse_i32(Unwrap(comma)[2]))
             THEN Some([id |-> Unwrap(parse_u64(Unwrap(comma)[1])),
                        tid |-> parse_i32(Unwrap(comma)[2])])
             ELSE None
        ELSE IF IsSome(parse_u64(ids))
             THEN Some([id |-> Unwrap(parse_u64(ids)), tid |-> None])
             ELSE None

\* MarkerFile::process_line on the line [sep, ids, json]: sep says whether
\* the line holds a space, json is None when the text is not valid JSON
MarkerFile_process_line(new_close, enter_exit, line, overflow_checks) ==
    LET dropped == [new_close_tracker |-> new_close, enter_exit_tracker |-> enter_exit,
                    panic |-> FALSE, marker |-> None]
    IN  IF ~line.sep \/ ~IsSome(line.json) \/ ~IsSome(ParseIds(line.ids))
        THEN dropped
        ELSE
        LET id == Unwrap(ParseIds(line.ids)).id
            tid == Unwrap(ParseIds(line.ids)).tid
            json == Unwrap(line.json)
            nc == SpanTracker_process_line(new_close, id, json)
            ee == SpanTracker_process_line(enter_exit, id, json)
        IN  IF id # 0
            THEN IF IsSome(nc.pair)
                 THEN LET done == process_complete_span(
                                    "Total", Unwrap(nc.pair)[1], Unwrap(nc.pair)[2],
                                    overflow_checks)
                      IN  [new_close_tracker |-> nc.tracker,
                           enter_exit_tracker |-> enter_exit,
                           panic |-> done.panic, marker |-> done.marker]
                 ELSE IF IsSome(ee.pair)
                 THEN LET end == IF IsSome(tid)
                                 THEN SetSpanTid(Unwrap(ee.pair)[2], Unwrap(tid))
                                 ELSE Unwrap(ee.pair)[2]
                          done == process_complete_span(
                                    "Running", Unwrap(ee.pair)[1], end, overflow_checks)
                      IN  [new_close_tracker |-> nc.tracker,
                           enter_exit_tracker |-> ee.tracker,
                           panic |-> done.panic, marker |-> done.marker]
                 ELSE [new_close_tracker |-> nc.tracker,
                       enter_exit_tracker |-> ee.tracker,
                       panic |-> FALSE, marker |-> None]
            ELSE LET ev == process_event(json)
                 IN  [new_close_tracker |-> new_close, enter_exit_tracker |-> enter_exit,
                      panic |-> ev.panic, marker |-> ev.marker]

RECURSIVE InsertBeforeEqual(_, _)
\* an insertion that is not stable: m goes in front of the elements whose
\* start_time is equal
InsertBeforeEqual(sorted, m) ==
    IF sorted = <<>> THEN <<m>>
    ELSE IF sorted[Len(sorted)].start_time < m.start_time
    THEN Append(sorted, m)
    ELSE Append(InsertBeforeEqual(SubSeq(sorted, 1, Len(sorted) - 1), m),
                sorted[Len(sorted)])

RECURSIVE InsertByKey(_, _)
\* insert m behind every element whose start_time is not greater
InsertByKey(sorted, m) ==
    IF sorted = <<>> THEN <<m>>
    ELSE IF sorted[Len(sorted)].start_time <= m.start_time
    THEN Append(sorted, m)
    ELSE Append(InsertByKey(SubSeq(sorted, 1, Len(sorted) - 1), m), sorted[Len(sorted)])

\* get_markers without the sort
Unsorted(ms) == ms

RECURSIVE sort_by_key(_)
\* Vec::sort_by_key(|m| m.start_time), a stable sort
sort_by_key(ms) ==
    IF ms = <<>> THEN <<>>
    ELSE InsertByKey(sort_by_key(SubSeq(ms, 1, Len(ms) - 1)), ms[Len(ms)])

----------------------------------------------------------------------------
(* State *)

VARIABLES
    new_close_tracker,   \* MarkerFile.new_close_tracker
    enter_exit_tracker,  \* MarkerFile.enter_exit_tracker
    collected,           \* the markers the iterator has yielded so far
    marker_spans,        \* the Vec get_markers returns
    status,              \* "reading", "returned" or "panicked"
    consumed             \* the lines read so far (history)

marker_vars ==
    <<new_close_tracker, enter_exit_tracker, collected, marker_spans, status, consumed>>

VARIABLES
    regular_lib_mapping_op_queue,    \* ProcessSampleData.regular_lib_mapping_op_queue
    jitdump_lib_mapping_op_queues,   \* ProcessSampleData.jitdump_lib_mapping_op_queues
    perf_map_mappings,               \* ProcessSampleData.perf_map_mappings
    lib_mappings_hierarchy,          \* the LibMappingsHierarchy of the flush
    phase,                           \* "recording", "flushing" once the hierarchy
                                     \* is built, "sampling" once inside the sample
                                     \* loop, then "markers", "dumped" after the
                                     \* statistics, and "counters"; "panicked"
                                     \* when the flush has panicked
    sample_timestamp                 \* timestamp_mono of the last sample handled

replay_vars ==
    <<regular_lib_mapping_op_queue, jitdump_lib_mapping_op_queues, perf_map_mappings,
      lib_mappings_hierarchy, phase, sample_timestamp>>

VARIABLES
    unresolved_samples,   \* ProcessSampleData.unresolved_samples, as recorded
    markers,              \* ProcessSampleData.markers
    counters,             \* ProcessSampleData.counters
    handled,              \* how many samples, markers and counters the loops of
                          \* flush_samples_to_profile have handled
    profile,              \* the output Profile: the calls made on it, the marker
                          \* types and the categories it has registered
    stats,                \* MarkerStats.per_collection_map
    span_marker_types,    \* the cache marker_typename -> MarkerTypeHandle of spans
    event_marker_types,   \* the same cache for events
    category_handles      \* the cache category -> CategoryHandle

assembly_vars ==
    <<unresolved_samples, markers, counters, handled, profile, stats,
      span_marker_types, event_marker_types, category_handles>>

VARIABLES
    counter_file,         \* the content of the counter file get_counter opens
    get_counter_result    \* what get_counter came to: not called yet, a Counter
                          \* returned, or a panic

counter_file_vars == <<counter_file, get_counter_result>>

vars == <<marker_vars, replay_vars, assembly_vars, counter_file_vars>>

\* a process for which no counter file is read
CounterFileIdle ==
    /\ counter_file = [json |-> {}]
    /\ get_counter_result = [state |-> "unread"]

\* Profile::new, as far as flush_samples_to_profile uses it
EmptyProfile == [calls |-> <<>>, marker_types |-> <<>>, categories |-> <<>>]

\* the state of the loops before flush_samples_to_profile has run
AssemblyStart ==
    /\ handled = [samples |-> 0, markers |-> 0, counters |-> 0]
    /\ profile = EmptyProfile
    /\ stats = <<>>
    /\ span_marker_types = <<>>
    /\ event_marker_types = <<>>
    /\ category_handles = <<>>

\* a process with no samples, markers or counters
AssemblyIdle ==
    /\ unresolved_samples = <<>>
    /\ markers = <<>>
    /\ counters = <<>>
    /\ AssemblyStart

\* a hierarchy with no queue registered
NoHierarchy == [queues |-> <<>>, cursors |-> <<>>, table |-> <<>>, applied |-> <<>>]

\* a process with no mapping ops and no samples
ReplayIdle ==
    /\ regular_lib_mapping_op_queue = <<>>
    /\ jitdump_lib_mapping_op_queues = <<>>
    /\ perf_map_mappings = None
    /\ lib_mappings_hierarchy = NoHierarchy
    /\ phase = "recording"
    /\ sample_timestamp = 0

\* MarkerFile::parse
MarkerInit ==
    /\ new_close_tracker = SpanTracker_new(S_new, S_close)
    /\ enter_exit_tracker = SpanTracker_new(S_enter, S_exit)
    /\ collected = <<>>
    /\ marker_spans = <<>>
    /\ status = "reading"
    /\ consumed = <<>>

InitMarkers == MarkerInit /\ ReplayIdle /\ AssemblyIdle /\ CounterFileIdle

\* MarkerFile::next on one more line of the file: process_line, and the
\* marker, if any, is yielded to collect().  A panic ends the process.
ReadLine(line) ==
    /\ status = "reading"
    /\ \E overflow_checks \in BOOLEAN :
        LET r == MarkerFile_process_line(
                    new_close_tracker, enter_exit_tracker, line, overflow_checks)
        IN  IF r.panic
            THEN /\ status' = "panicked"
                 /\ UNCHANGED <<new_close_tracker, enter_exit_tracker, collected>>
            ELSE /\ status' = "reading"
                 /\ new_close_tracker' = r.new_close_tracker
                 /\ enter_exit_tracker' = r.enter_exit_tracker
                 /\ collected' = IF IsSome(r.marker)
                                 THEN Append(collected, Unwrap(r.marker))
                                 ELSE collected
    /\ consumed' = Append(consumed, line)
    /\ UNCHANGED marker_spans
    /\ UNCHANGED <<replay_vars, assembly_vars, counter_file_vars>>

\* the end of the file (or a read error, which ends the iteration as well):
\* get_markers sorts what was collected and returns it
Finish ==
    /\ status = "reading"
    /\ status' = "returned"
    /\ marker_spans' = sort_by_key(collected)
    /\ UNCHANGED <<new_close_tracker, enter_exit_tracker, collected, consumed>>
    /\ UNCHANGED <<replay_vars, assembly_vars, counter_file_vars>>

----------------------------------------------------------------------------
(* Input lines *)

S_target == <<"a", "p", "p">>

S_hello == <<"h", "e", "l", "l", "o">>

S_other == <<"o", "t", "h", "e", "r">>

S_x == <<"x">>

\* "cpu/work-42"
S_action == <<"c", "p", "u", "/", "w", "o", "r", "k", "-", "4", "2">>

Keywords == {S_new, S_close, S_enter, S_exit}

DefaultSpan == ("name" :> JStr(S_x)) @@ ("action" :> JStr(S_action))

Json(at, timestamp, target, fields, span) ==
    [timestamp |-> timestamp, target |-> target, fields |-> fields, span |-> span,
     at |-> at]

Line(ids, json) == [sep |-> TRUE, ids |-> ids, json |-> Some(json)]

\* `<id> {"timestamp":"<ts>","target":"app","fields":{"message":"<msg>"},
\*        "span":{"name":"x","action":"cpu/work-42"}}`
WellFormedLine(at, id, ts, msg) ==
    Line(to_string(id),
         Json(at, Some(JStr(to_string(ts))), Some(JStr(S_target)),
              Some("message" :> JStr(msg)), Some(DefaultSpan)))

\* `0 {"timestamp":"<ts>","target":"app","fields":{"message":"hello"}}`
EventLine(at, ts) ==
    Line(to_string(0),
         Json(at, Some(JStr(to_string(ts))), Some(JStr(S_target)),
              Some("message" :> JStr(S_hello)), None))

MaxLines == 4

MaxId == 2

\* a log of well-formed span records whose timestamps grow with the lines,
\* observed while the file is being read
ReadPairingLine ==
    /\ Len(consumed) < MaxLines
    /\ \E id \in 1..MaxId, msg \in Keywords :
        ReadLine(WellFormedLine(Len(consumed) + 1, id, Len(consumed) + 1, msg))

NextPairing == ReadPairingLine

SpecPairing == InitMarkers /\ [][NextPairing]_vars

MaxOrderLines == 4

MaxTs == 2

\* a log of new/close records of one span id and of plain events, with
\* timestamps in any order
ReadOrderLine ==
    /\ Len(consumed) < MaxOrderLines
    /\ \E ts \in 0..MaxTs :
        \/ \E msg \in {S_new, S_close} :
            ReadLine(WellFormedLine(Len(consumed) + 1, 1, ts, msg))
        \/ ReadLine(EventLine(Len(consumed) + 1, ts))

NextOrder == ReadOrderLine \/ Finish

SpecOrder == InitMarkers /\ [][NextOrder]_vars

----------------------------------------------------------------------------
(* Malformed and out-of-protocol lines.  Every record below is for span id  *)
(* 1 and carries its line number as its timestamp.                          *)

\* "cpu/work": a '/' whose collection part has no '-'
S_bad_action == <<"c", "p", "u", "/", "w", "o", "r", "k">>

\* "5xs": a timing with a unit the parser does not know
S_bad_timing == <<"5", "x", "s">>

\* the spec's example: `1 {"fields":{"message":"new"}}`
ExampleNewLine(at) ==
    Line(<<"1">>, Json(at, None, None, Some("message" :> JStr(S_new)), None))

\* `1 {"fields":{"message":"close"},"span":{"name":"x","action":"cpu/work-42"}}`
ExampleCloseLine(at) ==
    Line(<<"1">>, Json(at, None, None, Some("message" :> JStr(S_close)),
                       Some(DefaultSpan)))

\* a `close` record with its timestamp, target, fields and span as given
CloseRecord(at, timestamp, target, fields, span) ==
    Line(<<"1">>, Json(at, timestamp, target, fields, span))

CloseFields == "message" :> JStr(S_close)

\* the lines a reader drops before it looks at the record
UnparsableLines(at) ==
    { [sep |-> FALSE, ids |-> <<"1">>, json |-> None],              \* no space
      [sep |-> TRUE, ids |-> <<"1">>, json |-> None],               \* not JSON
      [WellFormedLine(at, 1, at, S_close) EXCEPT !.ids = <<"x">>],  \* id not a number
      [WellFormedLine(at, 1, at, S_exit) EXCEPT !.ids = <<"1", ",", "x">>] }

\* records that lack a part process_complete_span reads
DefectiveLines(at) ==
    LET ts == Some(JStr(to_string(at)))
        target == Some(JStr(S_target))
    IN  { CloseRecord(at, None, target, Some(CloseFields), Some(DefaultSpan)),
          CloseRecord(at, ts, None, Some(CloseFields), Some(DefaultSpan)),
          CloseRecord(at, ts, target, Some(CloseFields), None),
          CloseRecord(at, ts, target, Some(CloseFields),
                      Some("action" :> JStr(S_action))),
          CloseRecord(at, ts, target, Some(CloseFields),
                      Some(("name" :> JStr(S_x)) @@ ("action" :> JStr(S_bad_action)))),
          CloseRecord(at, ts, target,
                      Some(CloseFields @@ ("time.busy" :> JStr(S_bad_timing))),
                      Some(DefaultSpan)) }

\* well-formed records: new, close, enter, an exit with a thread id, an
\* event, and a record whose message is no keyword
ProtocolLines(at) ==
    { WellFormedLine(at, 1, at, S_new),
      WellFormedLine(at, 1, at, S_close),
      WellFormedLine(at, 1, at, S_enter),
      [WellFormedLine(at, 1, at, S_exit) EXCEPT !.ids = <<"1", ",", "7">>],
      WellFormedLine(at, 1, at, S_other),
      EventLine(at, at) }

MalformedLines(at) == UnparsableLines(at) \cup DefectiveLines(at)

MaxBadLines == 3

ReadAnyLine ==
    /\ Len(consumed) < MaxBadLines
    /\ \E line \in ProtocolLines(Len(consumed) + 1)
                   \cup MalformedLines(Len(consumed) + 1)
                   \cup {ExampleNewLine(Len(consumed) + 1),
                         ExampleCloseLine(Len(consumed) + 1)} :
        ReadLine(line)

NextMalformed == ReadAnyLine \/ Finish

SpecMalformed == InitMarkers /\ [][NextMalformed]_vars

----------------------------------------------------------------------------
(* Properties of the span correlator *)

\* the line l is a record of span `id` whose message is `msg`
IsRecordLine(l, id, msg) ==
    /\ l.sep
    /\ IsSome(l.json)
    /\ MessageOf(Unwrap(l.json)) = Some(msg)
    /\ LET ids == ParseIds(l.ids)
       IN  IsSome(ids) /\ Unwrap(ids).id = id

\* line j of the input is a record of span `id` whose message is `msg`
IsRecord(j, id, msg) == IsRecordLine(consumed[j], id, msg)

\* the two pairing conventions: start keyword, end keyword, span type
Conventions ==
    { [start |-> S_new, end |-> S_close, span_type |-> "Total"],
      [start |-> S_enter, end |-> S_exit, span_type |-> "Running"] }

\* line j belongs to convention c and span id
InConvention(j, id, c) == IsRecord(j, id, c.start) \/ IsRecord(j, id, c.end)

CacheOf(c) ==
    IF c.start = S_new THEN new_close_tracker.started_span_cache
    ELSE enter_exit_tracker.started_span_cache

\* the markers that were built from line j as their start or end record
MarkersFrom(j) ==
    {k \in 1..Len(collected) : collected[k].start_at = j \/ collected[k].end_at = j}

IsSpanOf(m, span_type, s, e) ==
    /\ m.marker_data.kind = "Span"
    /\ m.marker_data.span_type = span_type
    /\ m.start_at = s
    /\ m.end_at = e

\* the raw timestamp of line j
TimestampOf(j) == Unwrap(read_timestamp_from_event(Unwrap(consumed[j].json)))

\* the marker the spec's example is said to yield
IsExampleMarker(m) ==
    /\ m.marker_data.kind = "Span"
    /\ m.marker_data.span_type = "Total"
    /\ m.message = <<"x">>
    /\ m.marker_data.category = <<"c", "p", "u">>
    /\ m.marker_data.stats_label
        = Some(<<"w", "o", "r", "k", ":", ":", "x", "-", "4", "2">>)

\* C3: the two-line input `1 {"fields":{"message":"new"}}`,
\* `1 {"fields":{"message":"close"},"span":{"name":"x","action":"cpu/work-42"}}`
\* yields exactly one marker, a Total span with message "x", category "cpu"
\* and stats key "work::x-42".
C3_ExampleYieldsOneTotalMarker ==
    consumed = <<ExampleNewLine(1), ExampleCloseLine(2)>>
        => /\ status # "panicked"
           /\ Len(collected) = 1
           /\ IsExampleMarker(collected[1])

\* lines s .. s+2n-1 are n consecutive enter/exit pairs of span id, and no
\* earlier line is an enter or exit of that id
EnterExitPairs(id, s, n) ==
    /\ s + 2 * n - 1 <= Len(consumed)
    /\ \A k \in 1..n : /\ IsRecord(s + 2 * k - 2, id, S_enter)
                       /\ IsRecord(s + 2 * k - 1, id, S_exit)
    /\ \A j \in 1..(s - 1) : ~IsRecord(j, id, S_enter) /\ ~IsRecord(j, id, S_exit)

\* the markers completed by lines s .. e, in the order they were yielded
CompletedBy(s, e) ==
    LET InWindow(m) == m.end_at \in s..e
    IN  SelectSeq(collected, InWindow)

\* C4: n consecutive enter/exit pairs for the same span id yield n separate
\* Running markers, the k-th pairing the k-th enter with the k-th exit; after
\* each exit the id has no pending enter.
C4_EnterExitPairsYieldRunningMarkers ==
    \A id \in 1..MaxId, s \in 1..Len(consumed) :
      \A n \in 1..((Len(consumed) - s + 1) \div 2) :
        EnterExitPairs(id, s, n) =>
            LET ms == CompletedBy(s, s + 2 * n - 1)
            IN  /\ Len(ms) = n
                /\ \A k \in 1..n :
                    /\ IsSpanOf(ms[k], "Running", s + 2 * k - 2, s + 2 * k - 1)
                    /\ ms[k].start_time = convert_time(TimestampOf(s + 2 * k - 2))
                    /\ ms[k].marker_data.end_time
                        = convert_time(TimestampOf(s + 2 * k - 1))
                /\ (Len(consumed) = s + 2 * n - 1
                        => id \notin DOMAIN enter_exit_tracker.started_span_cache)

C4_Witness ==
    /\ EnterExitPairs(1, 1, 2)
    /\ Len(consumed) = 4
    /\ Len(collected) = 2

\* the step reads one more line, a record of span id with message msg
ReadsRecord(id, msg) ==
    /\ status = "reading"
    /\ Len(consumed') = Len(consumed) + 1
    /\ IsRecordLine(consumed'[Len(consumed')], id, msg)

NothingYielded ==
    /\ collected' = collected
    /\ new_close_tracker' = new_close_tracker
    /\ enter_exit_tracker' = enter_exit_tracker
    /\ status' = "reading"

\* an end keyword at line e with no pending start, then the next start at s
\* and the next end at e2 of the same id and convention
OrphanEndThenPair(id, c, e, s, e2) ==
    /\ e < s /\ s < e2 /\ e2 <= Len(consumed)
    /\ IsRecord(e2, id, c.end)
    /\ IsRecord(s, id, c.start)
    /\ IsRecord(e, id, c.end)
    /\ \A j \in 1..(s - 1) : InConvention(j, id, c) => IsRecord(j, id, c.end)
    /\ \A j \in (s + 1)..(e2 - 1) : ~InConvention(j, id, c)

\* C5: an end keyword (close, exit) for an id with no pending start in that
\* convention yields no marker and leaves both pending maps unchanged; a later
\* start/end pair for that id yields exactly one marker, whose start is that
\* later start record.
C5_OrphanEndIsDropped ==
    /\ [][\A id \in 1..MaxId, c \in Conventions :
            ReadsRecord(id, c.end) /\ id \notin DOMAIN CacheOf(c) => NothingYielded]_vars
    /\ [](\A e2 \in 1..Len(consumed), id \in 1..MaxId, c \in Conventions :
           \A s \in 1..(e2 - 1) : \A e \in 1..(s - 1) :
            OrphanEndThenPair(id, c, e, s, e2) =>
                /\ MarkersFrom(e) = {}
                /\ Cardinality(MarkersFrom(s) \cup MarkersFrom(e2)) = 1
                /\ \A k \in MarkersFrom(e2) : IsSpanOf(collected[k], c.span_type, s, e2))

C5_Witness ==
    /\ \E c \in Conventions : OrphanEndThenPair(1, c, 1, 2, 3)
    /\ Len(collected) = 1

\* a start at line s1 of an id with nothing pending, a second start at s2
\* while the first is pending, and the next end at line e
DuplicateStartThenEnd(id, c, s1, s2, e) ==
    /\ s1 < s2 /\ s2 < e /\ e <= Len(consumed)
    /\ IsRecord(e, id, c.end)
    /\ IsRecord(s2, id, c.start)
    /\ IsRecord(s1, id, c.start)
    /\ \A j \in 1..(s1 - 1) : ~InConvention(j, id, c)
    /\ \A j \in (s1 + 1)..(e - 1) : InConvention(j, id, c) => IsRecord(j, id, c.start)

\* C6: a start keyword for an id that already has a pending start in the same
\* convention is dropped: it yields no marker and does not replace the pending
\* record, so the marker of the next end keyword carries the start time of the
\* first start record.
C6_DuplicateStartIsDropped ==
    /\ [][\A id \in 1..MaxId, c \in Conventions :
            ReadsRecord(id, c.start) /\ id \in DOMAIN CacheOf(c) => NothingYielded]_vars
    /\ [](\A e \in 1..Len(consumed), id \in 1..MaxId, c \in Conventions :
           \A s2 \in 1..(e - 1) : \A s1 \in 1..(s2 - 1) :
            DuplicateStartThenEnd(id, c, s1, s2, e) =>
                /\ MarkersFrom(s2) = {}
                /\ Cardinality(MarkersFrom(e)) = 1
                /\ \A k \in MarkersFrom(e) :
                    /\ IsSpanOf(collected[k], c.span_type, s1, e)
                    /\ collected[k].start_time = convert_time(TimestampOf(s1))
                    /\ collected[k].start_time # convert_time(TimestampOf(s2)))

C6_Witness ==
    /\ \E c \in Conventions : DuplicateStartThenEnd(1, c, 1, 2, 3)
    /\ Len(collected) = 1

\* C7: for every input, in any order, the marker sequence get_markers returns
\* is non-decreasing in start_time.
C7_ReturnedMarkersAreSorted ==
    status = "returned" =>
        \A i, j \in 1..Len(marker_spans) :
            i < j => marker_spans[i].start_time <= marker_spans[j].start_time

C7_Witness ==
    /\ status = "returned"
    /\ \E i, j \in 1..Len(collected) :
        i < j /\ collected[i].start_time > collected[j].start_time

\* C8 as stated: in the returned sequence two markers with equal start_time
\* appear in the order of their start records in the input.
C8_TiesInStartRecordOrder ==
    status = "returned" =>
        \A i, j \in 1..Len(marker_spans) :
            i < j /\ marker_spans[i].start_time = marker_spans[j].start_time
                => marker_spans[i].start_at < marker_spans[j].start_at

\* C8, amended: two markers with equal start_time appear in the order in which
\* the input completed them, that is in the order of their end records (for an
\* event, its own line).
C8_TiesInCompletionOrder ==
    status = "returned" =>
        \A i, j \in 1..Len(marker_spans) :
            i < j /\ marker_spans[i].start_time = marker_spans[j].start_time
                => marker_spans[i].end_at < marker_spans[j].end_at

C8_Witness ==
    /\ status = "returned"
    /\ \E i, j \in 1..Len(marker_spans) :
        /\ i < j
        /\ marker_spans[i].start_time = marker_spans[j].start_time
        /\ marker_spans[i].start_at > marker_spans[j].start_at

\* C9: no span-log line is fatal: a malformed or out-of-protocol line is
\* dropped, yields no marker, and processing continues with the next line.
C9_NoLineIsFatal ==
    [][\A line \in MalformedLines(Len(consumed) + 1) :
            status = "reading" /\ consumed' = Append(consumed, line)
                => NothingYielded]_vars

\* C10: every Span marker the correlator yields has end_time >= start_time,
\* also when the end record carries a smaller timestamp than the start record.
C10_SpanEndsAfterStart ==
    \A k \in 1..Len(collected) :
        collected[k].marker_data.kind = "Span"
            => collected[k].marker_data.end_time >= collected[k].start_time

----------------------------------------------------------------------------
(* Library mapping replay.  A LibMappingOp is the record                    *)
(*   [timestamp, kind : "Add" | "Remove", start, end, info]                 *)
(* where info, the library of an Add, names the queue and the position the  *)
(* op was recorded at.  The hierarchy holds the registered queues, one read *)
(* cursor per queue, the merged active mapping table (start -> [end, info]) *)
(* and, as history, the ops in the order they were applied.                 *)

\* LibMappingsHierarchy::new
LibMappingsHierarchy_new(regular_ops) ==
    [queues |-> <<regular_ops>>, cursors |-> <<1>>, table |-> <<>>, applied |-> <<>>]

\* LibMappingsHierarchy::add_jitdump_lib_mappings_ops
add_jitdump_lib_mappings_ops(h, ops) ==
    [h EXCEPT !.queues = Append(h.queues, ops), !.cursors = Append(h.cursors, 1)]

\* LibMappingsHierarchy::add_perf_map_mappings
add_perf_map_mappings(h, mappings) ==
    [h EXCEPT !.queues = Append(h.queues, mappings), !.cursors = Append(h.cursors, 1)]

RECURSIVE AddJitdumpQueues(_, _)
\* for jitdump_lib_mapping_ops in jitdump_lib_mapping_op_queues { .. }
AddJitdumpQueues(h, jitdump_queues) ==
    IF jitdump_queues = <<>> THEN h
    ELSE AddJitdumpQueues(add_jitdump_lib_mappings_ops(h, Head(jitdump_queues)),
                          Tail(jitdump_queues))

\* a hierarchy that registers the regular queue only
BuildHierarchy_RegularOnly(regular, jitdumps, perf_map) ==
    LibMappingsHierarchy_new(regular)

\* a hierarchy that registers the symbol-map source before the JIT queues
BuildHierarchy_PerfMapFirst(regular, jitdumps, perf_map) ==
    LET h0 == LibMappingsHierarchy_new(regular)
        h1 == IF IsSome(perf_map) THEN add_perf_map_mappings(h0, Unwrap(perf_map)) ELSE h0
    IN  AddJitdumpQueues(h1, jitdumps)

\* a hierarchy that leaves the JIT queues out
BuildHierarchy_NoJitdump(regular, jitdumps, perf_map) ==
    LET h0 == LibMappingsHierarchy_new(regular)
    IN  IF IsSome(perf_map) THEN add_perf_map_mappings(h0, Unwrap(perf_map)) ELSE h0

\* the hierarchy flush_samples_to_profile builds: the regular queue, then the
\* JIT queues in list order, then the symbol-map source if there is one
BuildHierarchy(regular, jitdumps, perf_map) ==
    LET h0 == LibMappingsHierarchy_new(regular)
        h1 == AddJitdumpQueues(h0, jitdumps)
    IN  IF IsSome(perf_map) THEN add_perf_map_mappings(h1, Unwrap(perf_map)) ELSE h1

\* LibMappingOp::apply: Add replaces the mapping with the same start, Remove
\* deletes the mapping at that start and does nothing when there is none
ApplyOp(table, op) ==
    IF op.kind = "Add"
    THEN (op.start :> [end |-> op.end, info |-> op.info]) @@ table
    ELSE RemoveKey(table, op.start)

\* the queues whose next unread op has a timestamp <= t
ReadyQueues(h, t) ==
    {q \in 1..Len(h.queues) :
        /\ h.cursors[q] <= Len(h.queues[q])
        /\ h.queues[q][h.cursors[q]].timestamp <= t}

RECURSIVE process_ops(_, _)
\* LibMappingsHierarchy::process_ops: a k-way merge that applies, smallest
\* timestamp first and earliest registered queue first among equals, every
\* unread op with a timestamp <= t
process_ops(h, t) ==
    IF ReadyQueues(h, t) = {} THEN h
    ELSE LET NextTs(q) == h.queues[q][h.cursors[q]].timestamp
             q == CHOOSE q1 \in ReadyQueues(h, t) :
                    \A q2 \in ReadyQueues(h, t) :
                        \/ NextTs(q1) < NextTs(q2)
                        \/ (NextTs(q1) = NextTs(q2) /\ q1 <= q2)
             op == h.queues[q][h.cursors[q]]
         IN  process_ops([h EXCEPT !.cursors[q] = @ + 1,
                                   !.table = ApplyOp(h.table, op),
                                   !.applied = Append(h.applied, op)], t)

\* resolve(address): the active mapping whose [start, end) holds the address
resolve(h, address) ==
    LET holding == {start \in DOMAIN h.table :
                        start <= address /\ address < h.table[start].end}
    IN  IF holding = {} THEN None
        ELSE LET start == CHOOSE x \in holding : \A y \in holding : y <= x
             IN  Some([start |-> start, end |-> h.table[start].end,
                       info |-> h.table[start].info])

MaxOps == 2

MaxTime == 2

MappingLen == 2

Starts == {0, 1}

Addresses == 0..(MappingLen + 1)

\* 0, 1 or 2 JIT sources, with or without a symbol-map source
ReplayInit ==
    /\ regular_lib_mapping_op_queue = <<>>
    /\ jitdump_lib_mapping_op_queues \in {<<>>, <<(<<>>)>>, <<(<<>>), (<<>>)>>}
    /\ perf_map_mappings \in {None, Some(<<>>)}
    /\ lib_mappings_hierarchy = NoHierarchy
    /\ phase = "recording"
    /\ sample_timestamp = 0

InitReplay == MarkerInit /\ ReplayInit /\ AssemblyIdle /\ CounterFileIdle

RecordedOps ==
    Len(regular_lib_mapping_op_queue)
    + (IF Len(jitdump_lib_mapping_op_queues) >= 1
       THEN Len(jitdump_lib_mapping_op_queues[1]) ELSE 0)
    + (IF Len(jitdump_lib_mapping_op_queues) >= 2
       THEN Len(jitdump_lib_mapping_op_queues[2]) ELSE 0)
    + (IF IsSome(perf_map_mappings) THEN Len(Unwrap(perf_map_mappings)) ELSE 0)

\* the ops a source may append to `queue`: timestamps never decrease
NewOps(queue, source) ==
    {[timestamp |-> ts, kind |-> kind, start |-> start, end |-> start + MappingLen,
      info |-> <<source, Len(queue) + 1>>] :
        ts \in {x \in 1..MaxTime : queue = <<>> \/ queue[Len(queue)].timestamp <= x},
        kind \in {"Add", "Remove"},
        start \in Starts}

\* recording: a source appends one op to its queue
RecordOp ==
    /\ phase = "recording"
    /\ RecordedOps < MaxOps
    /\ \/ \E op \in NewOps(regular_lib_mapping_op_queue, <<"regular", 0>>) :
            /\ regular_lib_mapping_op_queue' = Append(regular_lib_mapping_op_queue, op)
            /\ UNCHANGED <<jitdump_lib_mapping_op_queues, perf_map_mappings>>
       \/ \E j \in 1..Len(jitdump_lib_mapping_op_queues) :
            \E op \in NewOps(jitdump_lib_mapping_op_queues[j], <<"jitdump", j>>) :
                /\ jitdump_lib_mapping_op_queues' =
                    [jitdump_lib_mapping_op_queues EXCEPT ![j] = Append(@, op)]
                /\ UNCHANGED <<regular_lib_mapping_op_queue, perf_map_mappings>>
       \/ /\ IsSome(perf_map_mappings)
          /\ \E op \in NewOps(Unwrap(perf_map_mappings), <<"perf_map", 0>>) :
                /\ perf_map_mappings' = Some(Append(Unwrap(perf_map_mappings), op))
                /\ UNCHANGED <<regular_lib_mapping_op_queue, jitdump_lib_mapping_op_queues>>
    /\ UNCHANGED <<lib_mappings_hierarchy, phase, sample_timestamp>>
    /\ UNCHANGED <<marker_vars, assembly_vars, counter_file_vars>>

\* flush_samples_to_profile begins: the hierarchy is built from the queues
BeginFlush ==
    /\ phase = "recording"
    /\ phase' = "flushing"
    /\ lib_mappings_hierarchy' =
        BuildHierarchy(regular_lib_mapping_op_queue, jitdump_lib_mapping_op_queues,
                       perf_map_mappings)
    /\ UNCHANGED <<regular_lib_mapping_op_queue, jitdump_lib_mapping_op_queues,
                   perf_map_mappings, sample_timestamp>>
    /\ UNCHANGED <<marker_vars, assembly_vars, counter_file_vars>>

\* the loop body for one raw sample, whose timestamp is not smaller than the
\* previous sample's: lib_mappings_hierarchy.process_ops(sample.timestamp_mono)
FlushSample ==
    /\ phase \in {"flushing", "sampling"}
    /\ \E t \in sample_timestamp..MaxTime :
        /\ lib_mappings_hierarchy' = process_ops(lib_mappings_hierarchy, t)
        /\ sample_timestamp' = t
    /\ phase' = "sampling"
    /\ UNCHANGED <<regular_lib_mapping_op_queue, jitdump_lib_mapping_op_queues,
                   perf_map_mappings>>
    /\ UNCHANGED <<marker_vars, assembly_vars, counter_file_vars>>

NextReplay == RecordOp \/ BeginFlush \/ FlushSample

SpecReplay == InitReplay /\ [][NextReplay]_vars

----------------------------------------------------------------------------
(* Properties of the replay, stated over the queues of ProcessSampleData *)

\* the queues in registration order: the regular queue, the JIT queues in
\* list order, the symbol-map source
SourceQueues ==
    <<regular_lib_mapping_op_queue>>
    \o jitdump_lib_mapping_op_queues
    \o (IF IsSome(perf_map_mappings) THEN <<Unwrap(perf_map_mappings)>> ELSE <<>>)

\* the registration rank of the source an op was recorded by
Rank(op) ==
    IF op.info[1][1] = "regular" THEN 0
    ELSE IF op.info[1][1] = "jitdump" THEN op.info[1][2]
    ELSE Len(jitdump_lib_mapping_op_queues) + 1

RECURSIVE Flatten(_)
Flatten(seqs) == IF seqs = <<>> THEN <<>> ELSE Head(seqs) \o Flatten(Tail(seqs))

\* the ops with timestamp ts, queue by queue in registration order
OpsAt(ts) ==
    LET At(op) == op.timestamp = ts
    IN  Flatten([q \in 1..Len(SourceQueues) |-> SelectSeq(SourceQueues[q], At)])

\* every op with a timestamp <= t, in timestamp order
OpsUpTo(t) == Flatten([i \in 1..(t + 1) |-> OpsAt(i - 1)])

RECURSIVE ApplyAll(_, _)
ApplyAll(table, ops) ==
    IF ops = <<>> THEN table ELSE ApplyAll(ApplyOp(table, Head(ops)), Tail(ops))

\* the mappings of a table whose range holds the address
Holding(table, address) ==
    {[start |-> start, end |-> table[start].end, info |-> table[start].info] :
        start \in {x \in DOMAIN table : x <= address /\ address < table[x].end}}

Replayed == phase = "sampling"

\* C1: after process_ops(t) the active mapping table is the result of applying
\* every op with timestamp <= t and no op with timestamp > t, and
\* resolve(addr) returns a mapping active at t whose [start, end) holds addr,
\* or none when no active range holds it.
C1_ReplayResolvesAsOfSampleTime ==
    Replayed =>
        LET active == ApplyAll(<<>>, OpsUpTo(sample_timestamp))
        IN  /\ lib_mappings_hierarchy.table = active
            /\ lib_mappings_hierarchy.applied = OpsUpTo(sample_timestamp)
            /\ \A address \in Addresses :
                LET found == resolve(lib_mappings_hierarchy, address)
                IN  /\ found = None <=> Holding(active, address) = {}
                    /\ found \subseteq Holding(active, address)

\* an Add at time 1 and a Remove of the same start at a later time were both
\* replayed, ops of an auxiliary queue among them, and the address resolves
\* to nothing
C1_Witness ==
    /\ Replayed
    /\ \E i, j \in 1..Len(lib_mappings_hierarchy.applied) :
        /\ i < j
        /\ lib_mappings_hierarchy.applied[i].kind = "Add"
        /\ lib_mappings_hierarchy.applied[j].kind = "Remove"
        /\ lib_mappings_hierarchy.applied[i].start = lib_mappings_hierarchy.applied[j].start
        /\ Rank(lib_mappings_hierarchy.applied[i]) # Rank(lib_mappings_hierarchy.applied[j])
        /\ resolve(lib_mappings_hierarchy, lib_mappings_hierarchy.applied[i].start) = None

\* the op that decides the mapping at `start` among the ops `upto`: the last
\* one in the order of timestamp, then registration rank, then position in its queue
Decides(op, start, upto) ==
    LET ops == {o \in {upto[i] : i \in 1..Len(upto)} : o.start = start}
        Before(a, b) ==
            \/ a.timestamp < b.timestamp
            \/ (a.timestamp = b.timestamp /\ Rank(a) < Rank(b))
            \/ (a.timestamp = b.timestamp /\ Rank(a) = Rank(b) /\ a.info[2] < b.info[2])
    IN  op \in ops /\ \A o \in ops : o = op \/ Before(o, op)

\* C2: ops of several queues with the same timestamp are applied in queue
\* registration order, the regular queue first, then the JIT queues in list
\* order, then the symbol-map source; so of two Adds at the same start and
\* timestamp the one of the later registered queue is the one that stays.
C2_TiesInRegistrationOrder ==
    Replayed =>
        LET applied == lib_mappings_hierarchy.applied
            table == lib_mappings_hierarchy.table
            upto == OpsUpTo(sample_timestamp)
        IN  /\ \A i, j \in 1..Len(applied) :
                i < j /\ applied[i].timestamp = applied[j].timestamp
                    => Rank(applied[i]) <= Rank(applied[j])
            /\ \A start \in Starts, i \in 1..Len(applied) :
                Decides(applied[i], start, upto) =>
                    IF applied[i].kind = "Add"
                    THEN start \in DOMAIN table /\ table[start].info = applied[i].info
                    ELSE start \notin DOMAIN table

\* two Adds at the same start and timestamp, one recorded by the regular queue
\* and one by an auxiliary queue, and the auxiliary one is active
C2_Witness ==
    /\ Replayed
    /\ \E i, j \in 1..Len(lib_mappings_hierarchy.applied) :
        LET a == lib_mappings_hierarchy.applied[i]
            b == lib_mappings_hierarchy.applied[j]
        IN  /\ a.kind = "Add" /\ b.kind = "Add"
            /\ a.start = b.start /\ a.timestamp = b.timestamp
            /\ Rank(a) = 0 /\ Rank(b) > 0
            /\ lib_mappings_hierarchy.table[a.start].info = b.info

\* the table after the first n ops that were applied
TableAfter(n) == ApplyAll(<<>>, SubSeq(lib_mappings_hierarchy.applied, 1, n))

\* the i-th applied op is a Remove whose start matched no active mapping
UnmatchedRemove(i) ==
    /\ lib_mappings_hierarchy.applied[i].kind = "Remove"
    /\ lib_mappings_hierarchy.applied[i].start \notin DOMAIN TableAfter(i - 1)

\* C12: a Remove whose start matches no active mapping leaves the active
\* mapping table unchanged and does not stop the replay: every op of every
\* queue with a timestamp <= the sample time is still applied, and the table
\* is the result of the applied ops.
C12_UnmatchedRemoveIsIgnored ==
    Replayed =>
        LET applied == lib_mappings_hierarchy.applied
        IN  \A i \in 1..Len(applied) :
                UnmatchedRemove(i) =>
                    /\ TableAfter(i) = TableAfter(i - 1)
                    /\ lib_mappings_hierarchy.table = TableAfter(Len(applied))
                    /\ \A q \in 1..Len(SourceQueues) :
                        \A k \in 1..Len(SourceQueues[q]) :
                            SourceQueues[q][k].timestamp <= sample_timestamp
                                => \E j \in 1..Len(applied) : applied[j] = SourceQueues[q][k]

\* an unmatched Remove of the regular queue was applied and a later Add of a
\* JIT queue is active
C12_Witness ==
    /\ Replayed
    /\ \E i, j \in 1..Len(lib_mappings_hierarchy.applied) :
        /\ i < j
        /\ UnmatchedRemove(i)
        /\ Rank(lib_mappings_hierarchy.applied[i]) = 0
        /\ lib_mappings_hierarchy.applied[j].kind = "Add"
        /\ lib_mappings_hierarchy.applied[j].info[1][1] = "jitdump"
        /\ lib_mappings_hierarchy.applied[j].start \in DOMAIN lib_mappings_hierarchy.table

----------------------------------------------------------------------------
(* flush_samples_to_profile, the sample loop.  A raw sample is the record    *)
(*   [timestamp_mono, timestamp, stack, sample_or_marker, extra_label_frame, *)
(*    thread_handle]                                                         *)
(* where stack is an index into the table of interned stacks, a stack is a   *)
(* leaf-to-root sequence of [address, kind : "user" | "kernel"], and         *)
(* sample_or_marker is [kind |-> "Sample", cpu_delta, weight] or             *)
(* [kind |-> "MarkerHandle", mh].                                            *)

RECURSIVE InsertSample(_, _)
InsertSample(sorted, sample) ==
    IF sorted = <<>> THEN <<sample>>
    ELSE IF sample.timestamp_mono < Head(sorted).timestamp_mono
    THEN <<sample>> \o sorted
    ELSE <<Head(sorted)>> \o InsertSample(Tail(sorted), sample)

RECURSIVE into_inner(_)
\* UnresolvedSamples::into_inner: the samples in timestamp order, samples
\* with equal timestamps in the order they were recorded
into_inner(samples) ==
    IF samples = <<>> THEN <<>>
    ELSE InsertSample(into_inner(SubSeq(samples, 1, Len(samples) - 1)),
                      samples[Len(samples)])

\* UnresolvedStacks::convert_back: the frames of an interned stack
convert_back(stacks, stack) == stacks[stack]

\* the synthetic label frame, the frame of an address no mapping holds, and
\* the frame that stands for the frames the depth limiter cut
LabelFrame(label) == [frame |-> "label", label |-> label, category |-> "user"]

UnknownFrame(address) == [frame |-> "unknown", address |-> address, category |-> "user"]

TruncationFrame == [frame |-> "truncated", category |-> "user"]

\* StackConverter::convert_stack on one raw frame
ConvertFrame(h, raw) ==
    IF raw.kind = "kernel"
    THEN [frame |-> "kernel", address |-> raw.address, category |-> "kernel"]
    ELSE LET found == resolve(h, raw.address)
         IN  IF IsSome(found)
             THEN [frame |-> "library", info |-> Unwrap(found).info,
                   relative_address |-> raw.address - Unwrap(found).start,
                   category |-> "user"]
             ELSE UnknownFrame(raw.address)

\* StackConverter::convert_stack: one frame per raw frame, leaf to root, the
\* label frame in front when there is one
convert_stack(raw_frames, h, extra_label_frame) ==
    (IF IsSome(extra_label_frame) THEN <<LabelFrame(Unwrap(extra_label_frame))>> ELSE <<>>)
    \o [i \in 1..Len(raw_frames) |-> ConvertFrame(h, raw_frames[i])]

MaxStackDepth == 3

\* StackDepthLimitingFrameIter: at most MaxStackDepth frames, the root-ward
\* excess replaced by one truncation frame
StackDepthLimitingFrameIter(frames) ==
    IF Len(frames) <= MaxStackDepth THEN frames
    ELSE SubSeq(frames, 1, MaxStackDepth - 1) \o <<TruncationFrame>>

\* frames handed to the profile without the depth limiter
LimitedFrames_Unlimited(frames) == frames

\* let frames = StackDepthLimitingFrameIter::new(profile, frames, user_category)
LimitedFrames(frames) == StackDepthLimitingFrameIter(frames)

\* the loop body up to the frames, with the stack resolved before the replay
\* was advanced to the sample
ResolveSample_BeforeReplay(h, sample, stacks) ==
    [hierarchy |-> process_ops(h, sample.timestamp_mono),
     frames |-> LimitedFrames(convert_stack(convert_back(stacks, sample.stack), h,
                                            sample.extra_label_frame))]

\* the loop body up to the frames, with the queues read from their start again
\* at every sample
ResolveSample_ReadsFromStart(h, sample, stacks) ==
    LET advanced == process_ops([h EXCEPT !.cursors = [q \in DOMAIN h.cursors |-> 1]],
                                sample.timestamp_mono)
    IN  [hierarchy |-> advanced,
         frames |-> LimitedFrames(convert_stack(convert_back(stacks, sample.stack),
                                                advanced, sample.extra_label_frame))]

\* the loop body up to the frames, with no label frame handed to convert_stack
ResolveSample_WithoutLabel(h, sample, stacks) ==
    LET advanced == process_ops(h, sample.timestamp_mono)
    IN  [hierarchy |-> advanced,
         frames |-> LimitedFrames(convert_stack(convert_back(stacks, sample.stack),
                                                advanced, None))]

\* the loop body up to the frames: process_ops(sample.timestamp_mono), then
\* convert_back, convert_stack and the depth limiter
ResolveSample(h, sample, stacks) ==
    LET advanced == process_ops(h, sample.timestamp_mono)
    IN  [hierarchy |-> advanced,
         frames |-> LimitedFrames(convert_stack(convert_back(stacks, sample.stack),
                                                advanced, sample.extra_label_frame))]

\* match sample_or_marker { .. }: the call made on the profile
SampleCall(sample, frames) ==
    IF sample.sample_or_marker.kind = "Sample"
    THEN [op |-> "add_sample", thread_handle |-> sample.thread_handle,
          timestamp |-> sample.timestamp, frames |-> frames,
          cpu_delta |-> sample.sample_or_marker.cpu_delta,
          weight |-> sample.sample_or_marker.weight]
    ELSE [op |-> "set_marker_stack", thread_handle |-> sample.thread_handle,
          mh |-> sample.sample_or_marker.mh, frames |-> frames]

\* the interned stacks of the process: a leaf in the first mapping, a kernel
\* leaf above user frames, and a stack deeper than the depth limit
InternedStacks ==
    << <<[address |-> 0, kind |-> "user"]>>,
       <<[address |-> 7, kind |-> "kernel"], [address |-> 1, kind |-> "user"],
         [address |-> MappingLen + 1, kind |-> "user"]>>,
       [i \in 1..(MaxStackDepth + 2) |->
            [address |-> i % (MappingLen + 2), kind |-> "user"]] >>

\* for sample in samples { .. }: one raw sample
AssembleSample ==
    /\ phase \in {"flushing", "sampling"}
    /\ handled.samples < Len(unresolved_samples)
    /\ LET sample == into_inner(unresolved_samples)[handled.samples + 1]
           resolved == ResolveSample(lib_mappings_hierarchy, sample, InternedStacks)
       IN  /\ lib_mappings_hierarchy' = resolved.hierarchy
           /\ sample_timestamp' = sample.timestamp_mono
           /\ profile' = [profile EXCEPT
                            !.calls = Append(@, SampleCall(sample, resolved.frames))]
    /\ handled' = [handled EXCEPT !.samples = @ + 1]
    /\ phase' = "sampling"
    /\ UNCHANGED <<regular_lib_mapping_op_queue, jitdump_lib_mapping_op_queues,
                   perf_map_mappings>>
    /\ UNCHANGED <<unresolved_samples, markers, counters, stats, span_marker_types,
                   event_marker_types, category_handles>>
    /\ UNCHANGED <<marker_vars, counter_file_vars>>

MaxSamples == 2

\* an op as its source recorded it at position `at` of its queue
RecordedOp(timestamp, kind, start, source, at) ==
    [timestamp |-> timestamp, kind |-> kind, start |-> start,
     end |-> start + MappingLen, info |-> <<source, at>>]

\* the regular queues of the assembled processes
RegularQueues ==
    { <<>>,
      <<RecordedOp(1, "Add", 0, <<"regular", 0>>, 1)>>,
      <<RecordedOp(1, "Add", 0, <<"regular", 0>>, 1),
        RecordedOp(MaxTime, "Remove", 0, <<"regular", 0>>, 2)>>,
      <<RecordedOp(1, "Add", 0, <<"regular", 0>>, 1),
        RecordedOp(MaxTime, "Add", 1, <<"regular", 0>>, 2)>> }

\* no JIT source, or one that maps a range at time MaxTime
JitdumpQueueLists ==
    { <<>>, << <<RecordedOp(MaxTime, "Add", 1, <<"jitdump", 1>>, 1)>> >> }

\* the stack, payload and label of a raw sample
SampleShapes ==
    { [stack |-> 1, extra_label_frame |-> None, thread_handle |-> 1,
       sample_or_marker |-> [kind |-> "Sample", cpu_delta |-> 1, weight |-> 1]],
      [stack |-> 2, extra_label_frame |-> None, thread_handle |-> 2,
       sample_or_marker |-> [kind |-> "MarkerHandle", mh |-> 1]],
      [stack |-> 1, extra_label_frame |-> Some("jit"), thread_handle |-> 2,
       sample_or_marker |-> [kind |-> "MarkerHandle", mh |-> 3]],
      [stack |-> 3, extra_label_frame |-> Some("jit"), thread_handle |-> 1,
       sample_or_marker |-> [kind |-> "Sample", cpu_delta |-> 2, weight |-> 3]],
      [stack |-> 3, extra_label_frame |-> None, thread_handle |-> 2,
       sample_or_marker |-> [kind |-> "MarkerHandle", mh |-> 2]] }

\* a raw sample recorded at raw time t
RawSample(t, shape) ==
    [timestamp_mono |-> t, timestamp |-> convert_time(t), stack |-> shape.stack,
     sample_or_marker |-> shape.sample_or_marker,
     extra_label_frame |-> shape.extra_label_frame,
     thread_handle |-> shape.thread_handle]

RawSamples == {RawSample(t, shape) : t \in 0..MaxTime, shape \in SampleShapes}

\* a process with up to MaxSamples raw samples, recorded in any order
InitSamples ==
    /\ MarkerInit
    /\ regular_lib_mapping_op_queue \in RegularQueues
    /\ jitdump_lib_mapping_op_queues \in JitdumpQueueLists
    /\ perf_map_mappings = None
    /\ lib_mappings_hierarchy = NoHierarchy
    /\ phase = "recording"
    /\ sample_timestamp = 0
    /\ unresolved_samples \in UNION {[1..n -> RawSamples] : n \in 0..MaxSamples}
    /\ markers = <<>>
    /\ counters = <<>>
    /\ AssemblyStart
    /\ CounterFileIdle

NextSamples == BeginFlush \/ AssembleSample

SpecSamples == InitSamples /\ [][NextSamples]_vars

----------------------------------------------------------------------------
(* Properties of the sample loop *)

\* the raw samples in the order the loop handles them
HandlingOrder == into_inner(unresolved_samples)

\* the frames of a raw sample resolved against exactly the ops with a
\* timestamp <= the sample's
FramesAsOf(sample) ==
    LimitedFrames(convert_stack(InternedStacks[sample.stack],
                                [table |-> ApplyAll(<<>>, OpsUpTo(sample.timestamp_mono))],
                                sample.extra_label_frame))

\* C13: the raw samples are handled in timestamp order; for each one the
\* replay is advanced to its timestamp before its stack is resolved, so the
\* stack is resolved against exactly the ops with timestamp <= the sample's;
\* each raw sample yields exactly one output action, add_sample for a Sample
\* payload and set_marker_stack for a MarkerHandle payload, so there are as
\* many output actions as raw samples handled.
C13_OneActionPerSampleInTimeOrder ==
    /\ Len(profile.calls) = handled.samples
    /\ Len(HandlingOrder) = Len(unresolved_samples)
    /\ \A sample \in RawSamples :
        Cardinality({i \in 1..Len(HandlingOrder) : HandlingOrder[i] = sample})
            = Cardinality({i \in 1..Len(unresolved_samples) : unresolved_samples[i] = sample})
    /\ \A j, k \in 1..Len(HandlingOrder) :
        j < k => HandlingOrder[j].timestamp_mono <= HandlingOrder[k].timestamp_mono
    /\ handled.samples > 0 =>
        /\ sample_timestamp = HandlingOrder[handled.samples].timestamp_mono
        /\ lib_mappings_hierarchy.applied = OpsUpTo(sample_timestamp)
    /\ \A k \in 1..Len(profile.calls) :
        LET sample == HandlingOrder[k]
            call == profile.calls[k]
        IN  /\ call.frames = FramesAsOf(sample)
            /\ call.thread_handle = sample.thread_handle
            /\ IF sample.sample_or_marker.kind = "Sample"
               THEN /\ call.op = "add_sample"
                    /\ call.timestamp = convert_time(sample.timestamp_mono)
                    /\ call.cpu_delta = sample.sample_or_marker.cpu_delta
                    /\ call.weight = sample.sample_or_marker.weight
               ELSE /\ call.op = "set_marker_stack"
                    /\ call.mh = sample.sample_or_marker.mh

\* two raw samples recorded out of timestamp order were both handled, one as
\* add_sample and one as set_marker_stack, and an op between their timestamps
\* makes the same address resolve differently for the two
C13_Witness ==
    /\ handled.samples = 2
    /\ Len(unresolved_samples) = 2
    /\ unresolved_samples[1].timestamp_mono > unresolved_samples[2].timestamp_mono
    /\ profile.calls[1].op = "add_sample"
    /\ profile.calls[2].op = "set_marker_stack"
    /\ \E op \in {regular_lib_mapping_op_queue[i] : i \in 1..Len(regular_lib_mapping_op_queue)} :
        /\ unresolved_samples[2].timestamp_mono < op.timestamp
        /\ op.timestamp <= unresolved_samples[1].timestamp_mono
    /\ profile.calls[1].frames[1] = UnknownFrame(0)
    /\ profile.calls[2].frames # FramesAsOf([unresolved_samples[1] EXCEPT !.timestamp_mono = 0])

\* the frames of a raw sample before the depth limiter, leaf first
UnlimitedFramesAsOf(sample) ==
    convert_stack(InternedStacks[sample.stack],
                  [table |-> ApplyAll(<<>>, OpsUpTo(sample.timestamp_mono))],
                  sample.extra_label_frame)

\* C14: of a resolved stack longer than the maximum depth the depth limiter
\* outputs exactly max frames, the leaf-most frames unchanged and in
\* leaf-to-root order and the root-ward excess replaced by one truncation
\* marker frame; a stack of at most max frames is output unchanged.
C14_DepthLimiterKeepsLeafFrames ==
    \A k \in 1..Len(profile.calls) :
        LET resolved == UnlimitedFramesAsOf(HandlingOrder[k])
            output == profile.calls[k].frames
        IN  IF Len(resolved) > MaxStackDepth
            THEN /\ Len(output) = MaxStackDepth
                 /\ \A i \in 1..(MaxStackDepth - 1) : output[i] = resolved[i]
                 /\ output[MaxStackDepth] = TruncationFrame
                 /\ \A i \in 1..(MaxStackDepth - 1) : output[i] # TruncationFrame
            ELSE output = resolved

\* a stack deeper than the limit and a stack within the limit were both output
C14_Witness ==
    /\ \E k \in 1..Len(profile.calls) :
        /\ Len(UnlimitedFramesAsOf(HandlingOrder[k])) > MaxStackDepth + 1
        /\ Len(profile.calls[k].frames) = MaxStackDepth
    /\ \E k \in 1..Len(profile.calls) :
        /\ Len(UnlimitedFramesAsOf(HandlingOrder[k])) = MaxStackDepth
        /\ profile.calls[k].frames[MaxStackDepth] # TruncationFrame

----------------------------------------------------------------------------
(* flush_samples_to_profile, the marker loop.  A MarkerOnThread is the      *)
(* record [thread_handle, event_or_span].  A handle of a marker type or of  *)
(* a category is its position in the profile's list; an interned string is  *)
(* the string.  stats is MarkerStats::per_collection_map.                   *)

ZeroTimings == [time_busy |-> 0, time_idle |-> 0]

\* impl AddAssign<&Self> for TracingTimings
TracingTimings_add_assign(timings, other) ==
    [time_busy |-> timings.time_busy + other.time_busy,
     time_idle |-> timings.time_idle + other.time_idle]

\* per_collection_map.entry(label).or_default() += timings
AddToEntry(map, label, timings) ==
    (label :> TracingTimings_add_assign(
                 IF label \in DOMAIN map THEN map[label] ELSE ZeroTimings, timings))
    @@ map

\* process_span without the test of the span type
MarkerStats_process_span_AnySpanType(map, marker) ==
    IF /\ marker.marker_data.kind = "Span"
       /\ IsSome(marker.marker_data.stats_label)
    THEN AddToEntry(map, Unwrap(marker.marker_data.stats_label),
                    marker.marker_data.timings)
    ELSE map

\* MarkerStats::process_span
MarkerStats_process_span(map, marker) ==
    IF marker.marker_data.kind # "Span" THEN map
    ELSE IF marker.marker_data.span_type # "Total" THEN map
    ELSE IF IsSome(marker.marker_data.stats_label)
    THEN AddToEntry(map, Unwrap(marker.marker_data.stats_label),
                    marker.marker_data.timings)
    ELSE map

\* the field names of the markers, in the order of String's Ord
FieldNames == <<"a", "a_b", "action", "b">>

\* extra_fields.sort_by_key(|(k, _)| k.clone()), then unzip: the names
SortedFieldNames(extra_fields) ==
    LET Present(k) == k \in DOMAIN extra_fields
    IN  SelectSeq(FieldNames, Present)

\* extra_fields.sort_by_key(|(k, _)| k.clone()), then unzip: the values
SortedFieldValues(extra_fields) ==
    LET names == SortedFieldNames(extra_fields)
    IN  [i \in 1..Len(names) |-> extra_fields[names[i]]]

RECURSIVE join(_, _)
\* [String]::join
join(names, sep) ==
    IF names = <<>> THEN ""
    ELSE IF Len(names) = 1 THEN names[1]
    ELSE names[1] \o sep \o join(Tail(names), sep)

\* the MarkerSchema of SpanMarkerWithTimings::create_marker_type
SpanMarkerWithTimings_schema(extra_field_names) ==
    [type_name |-> "Span-" \o join(extra_field_names, "_"),
     fields |-> <<"time_idle", "time_busy", "name">> \o extra_field_names]

\* the MarkerSchema of EventMarker::create_marker_type
EventMarker_schema(extra_field_names) ==
    [type_name |-> "Event-" \o join(extra_field_names, "_"),
     fields |-> <<"message">> \o extra_field_names]

\* SpanMarkerWithTimings::string_field_value: field 2 is the name, field i
\* the extra value i - 3, and a missing value is a panic
SpanMarkerWithTimings_string_field_value(marker, field_index) ==
    IF field_index = 2 THEN [panic |-> FALSE, value |-> Some(marker.name)]
    ELSE IF field_index - 3 \in 0..(Len(marker.extra_fields) - 1)
    THEN [panic |-> FALSE, value |-> Some(marker.extra_fields[field_index - 3 + 1])]
    ELSE [panic |-> TRUE, value |-> None]

\* EventMarker::string_field_value: field 0 is the message, field i the extra
\* value i - 1, and a missing value is a panic
EventMarker_string_field_value(marker, field_index) ==
    IF field_index = 0 THEN [panic |-> FALSE, value |-> Some(marker.message)]
    ELSE IF field_index - 1 \in 0..(Len(marker.extra_fields) - 1)
    THEN [panic |-> FALSE, value |-> Some(marker.extra_fields[field_index - 1 + 1])]
    ELSE [panic |-> TRUE, value |-> None]

RECURSIVE calc_per_type_KeepsLastKey(_)
\* calc_per_type where the timings of a key replace the total of its type
calc_per_type_KeepsLastKey(map) ==
    IF DOMAIN map = {} THEN [panic |-> FALSE, per_type |-> <<>>]
    ELSE LET collection == CHOOSE k \in DOMAIN map : TRUE
             rest == calc_per_type_KeepsLastKey(RemoveKey(map, collection))
             parts == split_once(collection, "-")
         IN  IF rest.panic \/ ~IsSome(parts)
             THEN [panic |-> TRUE, per_type |-> <<>>]
             ELSE [panic |-> FALSE,
                   per_type |-> (Unwrap(parts)[1] :> map[collection]) @@ rest.per_type]

RECURSIVE calc_per_type(_)
\* MarkerStats::calc_per_type on per_collection_map: the keys are visited in
\* the order the HashMap holds them, and a key without '-' ends the process
calc_per_type(map) ==
    IF DOMAIN map = {} THEN [panic |-> FALSE, per_type |-> <<>>]
    ELSE LET collection == CHOOSE k \in DOMAIN map : TRUE
             rest == calc_per_type(RemoveKey(map, collection))
             parts == split_once(collection, "-")
         IN  IF rest.panic \/ ~IsSome(parts)
             THEN [panic |-> TRUE, per_type |-> <<>>]
             ELSE [panic |-> FALSE,
                   per_type |-> AddToEntry(rest.per_type, Unwrap(parts)[1],
                                           map[collection])]

\* entry(key).or_insert_with(..) that runs the closure on every call
EntryOrInsert_AlwaysInserts(map, key, list, value) ==
    [handle |-> Len(list) + 1,
     map |-> (key :> (Len(list) + 1)) @@ map,
     list |-> Append(list, value)]

\* map.entry(key).or_insert_with(|| register(value)): the handle, the map and
\* the list after the call
EntryOrInsert(map, key, list, value) ==
    IF key \in DOMAIN map
    THEN [handle |-> map[key], map |-> map, list |-> list]
    ELSE [handle |-> Len(list) + 1,
          map |-> (key :> (Len(list) + 1)) @@ map,
          list |-> Append(list, value)]

S_Logging == <<"(", "L", "o", "g", "g", "i", "n", "g", ")">>

\* let logging_category = profile.add_category("(Logging)", ..) and the empty
\* caches and statistics the marker loop starts with
BeginMarkers ==
    /\ phase \in {"flushing", "sampling"}
    /\ handled.samples = Len(unresolved_samples)
    /\ phase' = "markers"
    /\ profile' = [profile EXCEPT !.categories = Append(@, S_Logging)]
    /\ category_handles' = <<>>
    /\ span_marker_types' = <<>>
    /\ event_marker_types' = <<>>
    /\ stats' = <<>>
    /\ UNCHANGED <<unresolved_samples, markers, counters, handled>>
    /\ UNCHANGED <<regular_lib_mapping_op_queue, jitdump_lib_mapping_op_queues,
                   perf_map_mappings, lib_mappings_hierarchy, sample_timestamp>>
    /\ UNCHANGED <<marker_vars, counter_file_vars>>

\* the MarkerData::Event arm: the marker type of the cache, EventMarker::new
\* and profile.add_marker
AddEventMarker(marker, field_names, field_values, marker_typename) ==
    LET entry == EntryOrInsert(event_marker_types, marker_typename,
                               profile.marker_types, EventMarker_schema(field_names))
        event_marker == [kind |-> "EventMarker",
                         category |-> 1,
                         message |-> marker.event_or_span.message,
                         target |-> marker.event_or_span.target,
                         marker_type |-> entry.handle,
                         extra_fields |-> field_values]
    IN  /\ event_marker_types' = entry.map
        /\ profile' = [profile EXCEPT
                !.marker_types = entry.list,
                !.calls = Append(@, [op |-> "add_marker",
                                     thread_handle |-> marker.thread_handle,
                                     timing |-> [kind |-> "Instant",
                                                 start |-> marker.event_or_span.start_time],
                                     marker |-> event_marker])]
        /\ UNCHANGED <<span_marker_types, category_handles>>

\* the MarkerData::Span arm: the marker type of the cache,
\* SpanMarkerWithTimings::new and profile.add_marker
AddSpanMarker(marker, span, field_names, field_values, marker_typename) ==
    LET entry == EntryOrInsert(span_marker_types, marker_typename,
                               profile.marker_types,
                               SpanMarkerWithTimings_schema(field_names))
        category == EntryOrInsert(category_handles, span.category,
                                  profile.categories, span.category)
        span_marker == [kind |-> "SpanMarkerWithTimings",
                        category |-> category.handle,
                        label |-> IF IsSome(span.profiler_label)
                                  THEN Unwrap(span.profiler_label)
                                  ELSE SpanTypeName(span.span_type),
                        timings |-> span.timings,
                        name |-> marker.event_or_span.message,
                        marker_type |-> entry.handle,
                        extra_fields |-> field_values]
    IN  /\ span_marker_types' = entry.map
        /\ category_handles' = category.map
        /\ profile' = [profile EXCEPT
                !.marker_types = entry.list,
                !.categories = category.list,
                !.calls = Append(@, [op |-> "add_marker",
                                     thread_handle |-> marker.thread_handle,
                                     timing |-> [kind |-> "Interval",
                                                 start |-> marker.event_or_span.start_time,
                                                 end |-> span.end_time],
                                     marker |-> span_marker])]
        /\ UNCHANGED event_marker_types

\* for marker in markers { .. }: one marker
AssembleMarker ==
    /\ phase = "markers"
    /\ handled.markers < Len(markers)
    /\ LET marker == markers[handled.markers + 1]
           field_names == SortedFieldNames(marker.event_or_span.extra_fields)
           field_values == SortedFieldValues(marker.event_or_span.extra_fields)
           marker_typename == join(field_names, "_")
       IN  /\ stats' = MarkerStats_process_span(stats, marker.event_or_span)
           /\ IF marker.event_or_span.marker_data.kind = "Event"
              THEN AddEventMarker(marker, field_names, field_values, marker_typename)
              ELSE AddSpanMarker(marker, marker.event_or_span.marker_data,
                                 field_names, field_values, marker_typename)
    /\ handled' = [handled EXCEPT !.markers = @ + 1]
    /\ UNCHANGED <<unresolved_samples, markers, counters>>
    /\ UNCHANGED <<replay_vars, marker_vars, counter_file_vars>>

\* if !stats.is_empty() { stats.dump() }: the per-type totals are computed
\* and printed with the per-key totals
DumpStats ==
    /\ phase = "markers"
    /\ handled.markers = Len(markers)
    /\ phase' = IF DOMAIN stats # {} /\ calc_per_type(stats).panic
                THEN "panicked" ELSE "dumped"
    /\ UNCHANGED <<regular_lib_mapping_op_queue, jitdump_lib_mapping_op_queues,
                   perf_map_mappings, lib_mappings_hierarchy, sample_timestamp>>
    /\ UNCHANGED <<assembly_vars, marker_vars, counter_file_vars>>

S_io_action == <<"i", "o", "-", "7", "/", "r", "e", "a", "d", "-", "9">>

\* "cpu/work-7"
S_work_7_action == <<"c", "p", "u", "/", "w", "o", "r", "k", "-", "7">>

S_cpu == <<"c", "p", "u">>

\* a span marker as process_complete_span labels it, on thread 1
SpanOnThread(span_type, extra_fields, time_busy, time_idle) ==
    LET action == IF HasKey(extra_fields, "action")
                  THEN extra_fields["action"] ELSE <<"-">>
        labels == SpanLabels(action, S_x, span_type)
    IN  [thread_handle |-> 1,
         event_or_span |->
            [start_time |-> convert_time(1), message |-> S_x, target |-> S_target,
             extra_fields |-> extra_fields,
             marker_data |-> [kind |-> "Span", end_time |-> convert_time(2),
                              span_type |-> span_type,
                              category |-> labels.category,
                              profiler_label |-> labels.profiler_label,
                              stats_label |-> labels.stats_label,
                              timings |-> [time_busy |-> time_busy,
                                           time_idle |-> time_idle]]]]

\* an event marker as process_event builds it, on thread 2
EventOnThread(extra_fields) ==
    [thread_handle |-> 2,
     event_or_span |->
        [start_time |-> convert_time(1), message |-> S_hello, target |-> S_target,
         extra_fields |-> extra_fields, marker_data |-> [kind |-> "Event"]]]

\* the markers of the assembled processes: Total and Running spans with the
\* same stats key, spans with another key of another and of the same type,
\* spans without a key, and spans
\* and events whose extra field names are {a_b}, {a, b} or none
AssemblyMarkers ==
    { SpanOnThread("Total", "action" :> S_action, 3, 1),
      SpanOnThread("Running", "action" :> S_action, 2, 1),
      SpanOnThread("Total", "action" :> S_io_action, 4, 2),
      SpanOnThread("Total", "action" :> S_work_7_action, 2, 5),
      SpanOnThread("Total", "action" :> S_cpu, 5, 3),
      SpanOnThread("Total", "a_b" :> S_x, 1, 0),
      SpanOnThread("Running", ("a" :> S_hello) @@ ("b" :> S_other), 1, 1),
      EventOnThread("a_b" :> S_x),
      EventOnThread(("a" :> S_hello) @@ ("b" :> S_other)),
      EventOnThread(<<>>) }

MaxMarkers == 2

\* a process with up to MaxMarkers markers and no samples
InitAssembly ==
    /\ MarkerInit
    /\ ReplayIdle
    /\ unresolved_samples = <<>>
    /\ markers \in UNION {[1..n -> AssemblyMarkers] : n \in 0..MaxMarkers}
    /\ counters = <<>>
    /\ AssemblyStart
    /\ CounterFileIdle

NextAssembly == BeginFlush \/ BeginMarkers \/ AssembleMarker \/ DumpStats

SpecAssembly == InitAssembly /\ [][NextAssembly]_vars

----------------------------------------------------------------------------
(* Properties of the marker loop *)

AllMarkersHandled == phase = "markers" /\ handled.markers = Len(markers)

\* the stats keys the markers carry
StatsKeys ==
    {Unwrap(m.event_or_span.marker_data.stats_label) :
        m \in {m \in AssemblyMarkers :
                    /\ m.event_or_span.marker_data.kind = "Span"
                    /\ IsSome(m.event_or_span.marker_data.stats_label)}}

RECURSIVE SumSeq(_)
\* the sum of a list of numbers
SumSeq(ns) == IF ns = <<>> THEN 0 ELSE Head(ns) + SumSeq(Tail(ns))

\* the per-key total of key k when the spans that satisfy Counts are summed
TotalIs(k, Counts(_)) ==
    LET Busy(m) == m.event_or_span.marker_data.timings.time_busy
        Idle(m) == m.event_or_span.marker_data.timings.time_idle
        Carries(m) == /\ m.event_or_span.marker_data.kind = "Span"
                      /\ m.event_or_span.marker_data.stats_label = Some(k)
                      /\ Counts(m)
    IN  IF \E i \in 1..Len(markers) : Carries(markers[i])
        THEN /\ k \in DOMAIN stats
             /\ stats[k].time_busy =
                    SumSeq([i \in 1..Len(markers) |->
                                IF Carries(markers[i]) THEN Busy(markers[i]) ELSE 0])
             /\ stats[k].time_idle =
                    SumSeq([i \in 1..Len(markers) |->
                                IF Carries(markers[i]) THEN Idle(markers[i]) ELSE 0])
        ELSE k \notin DOMAIN stats

\* C15: after all markers are processed the per-key total of every stats key
\* is the sum of the timings of every Span marker of span type Total that
\* carries the key; Running spans, Events and Spans without a stats key
\* contribute nothing, and a key carried by no Total span has no total.
C15_TotalsSumTotalSpans ==
    AllMarkersHandled =>
        LET IsTotal(m) == m.event_or_span.marker_data.span_type = "Total"
        IN  /\ DOMAIN stats \subseteq StatsKeys
            /\ \A k \in StatsKeys : TotalIs(k, IsTotal)

\* C15 as stated: the per-key total is the sum over every Span marker that
\* carries the key, whatever its span type
C15_TotalsSumEverySpan ==
    AllMarkersHandled =>
        LET AnyType(m) == TRUE
        IN  /\ DOMAIN stats \subseteq StatsKeys
            /\ \A k \in StatsKeys : TotalIs(k, AnyType)

\* a Total and a Running span with the same stats key were processed, and
\* the total of the key is that of the Total span alone
C15_Witness ==
    /\ AllMarkersHandled
    /\ \E i, j \in 1..Len(markers) :
        LET a == markers[i].event_or_span.marker_data
            b == markers[j].event_or_span.marker_data
        IN  /\ a.kind = "Span" /\ b.kind = "Span"
            /\ a.span_type = "Total" /\ b.span_type = "Running"
            /\ IsSome(a.stats_label) /\ a.stats_label = b.stats_label
            /\ stats[Unwrap(a.stats_label)] = a.timings

\* the statistics were printed
StatsDumped == phase = "dumped" /\ DOMAIN stats # {}

\* the text of key k before its first '-'
TypeOf(k) == SubSeq(k, 1, IndexOf(k, "-") - 1)

\* the stats keys in some order
StatsKeyList ==
    CHOOSE keys \in [1..Cardinality(StatsKeys) -> StatsKeys] :
        \A k \in StatsKeys : \E i \in DOMAIN keys : keys[i] = k

\* the sum of the per-key busy and idle totals of the keys of type T
PerKeySum(T) ==
    LET Of(k) == k \in DOMAIN stats /\ TypeOf(k) = T
    IN  [time_busy |-> SumSeq([i \in DOMAIN StatsKeyList |->
                            IF Of(StatsKeyList[i])
                            THEN stats[StatsKeyList[i]].time_busy ELSE 0]),
         time_idle |-> SumSeq([i \in DOMAIN StatsKeyList |->
                            IF Of(StatsKeyList[i])
                            THEN stats[StatsKeyList[i]].time_idle ELSE 0])]

\* the sum of all per-key totals
AllKeysSum ==
    [time_busy |-> SumSeq([i \in DOMAIN StatsKeyList |->
                        IF StatsKeyList[i] \in DOMAIN stats
                        THEN stats[StatsKeyList[i]].time_busy ELSE 0]),
     time_idle |-> SumSeq([i \in DOMAIN StatsKeyList |->
                        IF StatsKeyList[i] \in DOMAIN stats
                        THEN stats[StatsKeyList[i]].time_idle ELSE 0])]

\* the sum of all per-type totals
AllTypesSum ==
    LET per_type == calc_per_type(stats).per_type
        types == CHOOSE ts \in [1..Cardinality(DOMAIN per_type) -> DOMAIN per_type] :
                    \A T \in DOMAIN per_type : \E i \in DOMAIN ts : ts[i] = T
    IN  [time_busy |-> SumSeq([i \in DOMAIN types |-> per_type[types[i]].time_busy]),
         time_idle |-> SumSeq([i \in DOMAIN types |-> per_type[types[i]].time_idle])]

\* C28: every stats key of the aggregator contains a '-', so the split on the
\* first '-' never fails; the per-type total of a type T is the sum of the
\* per-key totals of the keys whose prefix before the first '-' is T; and the
\* per-type totals add up to the per-key totals, busy and idle time apart.
C28_PerTypeTotalsSumPerKeyTotals ==
    /\ phase # "panicked"
    /\ phase \in {"markers", "dumped"} =>
        /\ \A k \in DOMAIN stats : IndexOf(k, "-") > 0
        /\ DOMAIN stats \subseteq StatsKeys
    /\ StatsDumped =>
        LET per_type == calc_per_type(stats).per_type
        IN  /\ DOMAIN per_type = {TypeOf(k) : k \in DOMAIN stats}
            /\ \A T \in DOMAIN per_type : per_type[T] = PerKeySum(T)
            /\ AllTypesSum = AllKeysSum

\* two keys of one type were summed into one per-type total
C28_Witness ==
    /\ StatsDumped
    /\ \E k1, k2 \in DOMAIN stats :
        /\ k1 # k2
        /\ TypeOf(k1) = TypeOf(k2)
        /\ calc_per_type(stats).per_type[TypeOf(k1)].time_busy
            = stats[k1].time_busy + stats[k2].time_busy
        /\ stats[k1].time_busy > 0 /\ stats[k2].time_busy > 0

\* the add_marker call made for the i-th marker
MarkerCall(i) == profile.calls[i]

\* C16: within one assembly two markers of the same kind (Span or Event)
\* receive the same schema handle if and only if their sets of extra field
\* names are equal, also when names contain the join character `_`.
C16_OneSchemaPerFieldNameSet ==
    \A i, j \in 1..handled.markers :
        markers[i].event_or_span.marker_data.kind = markers[j].event_or_span.marker_data.kind
        => (MarkerCall(i).marker.marker_type = MarkerCall(j).marker.marker_type
            <=> DOMAIN markers[i].event_or_span.extra_fields
                    = DOMAIN markers[j].event_or_span.extra_fields)

\* the kind of the i-th marker and the cache key of its schema
KindOf(i) == markers[i].event_or_span.marker_data.kind

CacheKeyOf(i) == join(SortedFieldNames(markers[i].event_or_span.extra_fields), "_")

\* the span markers handled so far
HandledSpans == {i \in 1..handled.markers : KindOf(i) = "Span"}

\* the first marker handled that has the kind and the cache key of marker i
FirstOfShape(i) ==
    CHOOSE j \in 1..i :
        /\ KindOf(j) = KindOf(i) /\ CacheKeyOf(j) = CacheKeyOf(i)
        /\ \A k \in 1..(j - 1) : KindOf(k) # KindOf(i) \/ CacheKeyOf(k) # CacheKeyOf(i)

\* the first span handled that has the category of span marker i
FirstOfCategory(i) ==
    CHOOSE j \in HandledSpans :
        /\ markers[j].event_or_span.marker_data.category
            = markers[i].event_or_span.marker_data.category
        /\ \A k \in HandledSpans :
            markers[k].event_or_span.marker_data.category
                = markers[i].event_or_span.marker_data.category => j <= k

\* C29: the category and marker-schema registries are first-use caches: one
\* add_category per distinct span category, one register_marker_type per
\* distinct cache key of each marker kind, and every later marker of the same
\* key reuses the handle of the first, so that the registered schemas are no
\* more than the distinct marker shapes.
C29_RegistriesAreFirstUseCaches ==
    phase \in {"markers", "dumped"} =>
        /\ Len(profile.categories) - 1
            = Cardinality({markers[i].event_or_span.marker_data.category :
                            i \in HandledSpans})
        /\ \A a, b \in 2..Len(profile.categories) :
            a # b => profile.categories[a] # profile.categories[b]
        /\ Len(profile.marker_types)
            = Cardinality({<<KindOf(i), CacheKeyOf(i)>> : i \in 1..handled.markers})
        /\ Len(profile.marker_types) <= handled.markers
        /\ \A i \in 1..handled.markers :
            /\ MarkerCall(i).marker.marker_type
                = MarkerCall(FirstOfShape(i)).marker.marker_type
            /\ KindOf(i) = "Span"
                => /\ MarkerCall(i).marker.category
                        = MarkerCall(FirstOfCategory(i)).marker.category
                   /\ profile.categories[MarkerCall(i).marker.category]
                        = markers[i].event_or_span.marker_data.category
        /\ \A i, j \in 1..handled.markers :
            KindOf(i) # KindOf(j) \/ CacheKeyOf(i) # CacheKeyOf(j)
                => MarkerCall(i).marker.marker_type # MarkerCall(j).marker.marker_type

\* two spans of one shape and one category were added with one schema and one
\* category registered for them
C29_Witness ==
    /\ phase = "markers"
    /\ handled.markers = 2
    /\ KindOf(1) = "Span" /\ KindOf(2) = "Span"
    /\ markers[1] # markers[2]
    /\ CacheKeyOf(1) = CacheKeyOf(2)
    /\ Len(profile.marker_types) = 1
    /\ Len(profile.categories) = 2

\* the schema the i-th marker was added under
SchemaOf(i) == profile.marker_types[MarkerCall(i).marker.marker_type]

\* the number of fixed fields in front of the extra fields of a schema
FixedFields(i) == IF KindOf(i) = "Span" THEN 3 ELSE 1

\* the string field indexes the schema of marker i declares
StringFieldIndexes(i) ==
    IF KindOf(i) = "Span" THEN 2..(Len(SchemaOf(i).fields) - 1)
    ELSE 0..(Len(SchemaOf(i).fields) - 1)

\* C30: every marker added to the profile agrees with its schema: it holds as
\* many extra values as the schema has extra fields, the i-th value is that of
\* the i-th sorted field name, and reading a field index the schema declares
\* always finds a value.
C30_MarkersAgreeWithTheirSchema ==
    \A i \in 1..handled.markers :
        LET added == MarkerCall(i).marker
            extra_fields == markers[i].event_or_span.extra_fields
        IN  /\ Len(added.extra_fields) = Len(SchemaOf(i).fields) - FixedFields(i)
            /\ \A n \in 1..Len(added.extra_fields) :
                LET name == SchemaOf(i).fields[FixedFields(i) + n]
                IN  name \in DOMAIN extra_fields /\ added.extra_fields[n] = extra_fields[name]
            /\ \A field_index \in StringFieldIndexes(i) :
                IF KindOf(i) = "Span"
                THEN ~SpanMarkerWithTimings_string_field_value(added, field_index).panic
                ELSE ~EventMarker_string_field_value(added, field_index).panic

\* the same for assemblies in which no two markers of a kind share a cache key
\* without sharing their field names
C30_AgreeWhenKeysDoNotCollide ==
    (\A i, j \in 1..Len(markers) :
        KindOf(i) = KindOf(j) /\ CacheKeyOf(i) = CacheKeyOf(j)
            => DOMAIN markers[i].event_or_span.extra_fields
                = DOMAIN markers[j].event_or_span.extra_fields)
    => C30_MarkersAgreeWithTheirSchema

----------------------------------------------------------------------------
(* Completed spans: the action field and the timing fields of the end       *)
(* record.  Every record is for span id 1; the record of line n carries     *)
(* the timestamp 3 * n, a start record possibly a later one.                *)

\* "cpu-7/work-42": an atom with an AtomId
S_atom_id_action == <<"c", "p", "u", "-", "7", "/", "w", "o", "r", "k", "-", "4", "2">>

\* "cpu/work-123456789": a CollectionId of more than 8 characters
S_long_id_action ==
    <<"c", "p", "u", "/", "w", "o", "r", "k", "-",
      "1", "2", "3", "4", "5", "6", "7", "8", "9">>

\* the action fields of the end records; "cpu" has no '/', "cpu/work" has a
\* '/' and no '-' after it
SpanActions == {S_action, S_atom_id_action, S_long_id_action, S_cpu, S_bad_action}

\* the span objects of the end records: one per action, and one without action
SpanObjects ==
    {("name" :> JStr(S_x)) @@ ("action" :> JStr(action)) : action \in SpanActions}
    \cup {"name" :> JStr(S_x)}

S_5ms == <<"5", "m", "s">>

S_1ms == <<"1", "m", "s">>

S_5us == <<"5", "u", "s">>

S_5micro == <<"5", "µ", "s">>

S_1s == <<"1", "s">>

S_5ns == <<"5", "n", "s">>

S_1_5ms == <<"1", ".", "5", "m", "s">>

\* the timing fields of the end records, for each of the units
TimingFields ==
    { ("time.busy" :> JStr(S_5ms)) @@ ("time.idle" :> JStr(S_1ms)),
      ("time.busy" :> JStr(S_5us)) @@ ("time.idle" :> JStr(S_5micro)),
      ("time.busy" :> JStr(S_1s)) @@ ("time.idle" :> JStr(S_5ns)),
      ("time.busy" :> JStr(S_5micro)) @@ ("time.idle" :> JStr(S_1_5ms)),
      "time.busy" :> JStr(S_1_5ms),
      "time.idle" :> JStr(S_5ns) }

\* a record of span id 1 at line `at`, `late` ticks after the line's time
SpanRecord(at, late, msg, timings, span) ==
    Line(<<"1">>, Json(at, Some(JStr(to_string(3 * at + late))), Some(JStr(S_target)),
                       Some(("message" :> JStr(msg)) @@ timings), Some(span)))

\* start records, some with a timestamp later than that of the next line's
\* record; end records with each action and no timing fields; end records
\* with the default action and each set of timing fields
SpanRecords(at) ==
    {SpanRecord(at, late, msg, <<>>, DefaultSpan) : late \in {0, 5}, msg \in {S_new, S_enter}}
    \cup {SpanRecord(at, 0, msg, <<>>, span) :
                msg \in {S_close, S_exit}, span \in SpanObjects}
    \cup {SpanRecord(at, 0, msg, timings, DefaultSpan) :
                msg \in {S_close, S_exit}, timings \in TimingFields}

MaxSpanLines == 2

ReadSpanLine ==
    /\ Len(consumed) < MaxSpanLines
    /\ \E line \in SpanRecords(Len(consumed) + 1) : ReadLine(line)

NextSpans == ReadSpanLine

SpecSpans == InitMarkers /\ [][NextSpans]_vars

----------------------------------------------------------------------------
(* Properties of completed spans *)

\* the end record a span marker was built from
EndRecordOf(m) == Unwrap(consumed[m.end_at].json)

\* the span markers collected so far
SpanMarkers ==
    {collected[i] : i \in {j \in 1..Len(collected) : collected[j].marker_data.kind = "Span"}}

\* the action field of an end record, when it has one
ActionOf(record) ==
    IF HasKey(Unwrap(record.span), "action")
    THEN Some(Unwrap(record.span)["action"].str) ELSE None

\* the action has the form AtomType[-AtomId]/CollectionType-CollectionId
MatchesActionFormat(action) ==
    /\ IsSome(split_once(action, "/"))
    /\ IsSome(split_once(Unwrap(split_once(action, "/"))[2], "-"))

\* the parts of an action of that form
ActionParts(action) ==
    LET atom == Unwrap(split_once(action, "/"))[1]
        collection == Unwrap(split_once(action, "/"))[2]
        id == Unwrap(split_once(collection, "-"))[2]
    IN  [AtomType |-> IF IsSome(split_once(atom, "-"))
                      THEN Unwrap(split_once(atom, "-"))[1] ELSE atom,
         CollectionType |-> Unwrap(split_once(collection, "-"))[1],
         id8 |-> IF Len(id) > 8 THEN SubSeq(id, 1, 8) ELSE id]

\* C17: for a completed span whose action has the form
\* AtomType[-AtomId]/CollectionType-CollectionId the marker's category is
\* AtomType, its profiler label is `CollectionType-<id8> <span_type>` and its
\* stats key is `CollectionType::<message>-<id8>`, id8 being CollectionId cut
\* to its first 8 characters.
C17_LabelsFollowActionFormat ==
    \A m \in SpanMarkers :
        LET action == ActionOf(EndRecordOf(m))
        IN  (IsSome(action) /\ MatchesActionFormat(Unwrap(action))) =>
                LET parts == ActionParts(Unwrap(action))
                IN  /\ m.marker_data.category = parts.AtomType
                    /\ m.marker_data.profiler_label =
                            Some(parts.CollectionType \o <<"-">> \o parts.id8 \o <<" ">>
                                 \o SpanTypeName(m.marker_data.span_type))
                    /\ m.marker_data.stats_label =
                            Some(parts.CollectionType \o <<":", ":">> \o m.message
                                 \o <<"-">> \o parts.id8)

\* the record read by this step, when the step reads one
ReadRecord == Unwrap(consumed'[Len(consumed')].json)

\* this step reads the end record of a pending span of span id 1
ReadsEndOfPendingSpan ==
    /\ status = "reading"
    /\ Len(consumed') = Len(consumed) + 1
    /\ \/ /\ MessageOf(ReadRecord) = Some(S_close)
          /\ 1 \in DOMAIN new_close_tracker.started_span_cache
       \/ /\ MessageOf(ReadRecord) = Some(S_exit)
          /\ 1 \in DOMAIN enter_exit_tracker.started_span_cache

\* C18: for a completed span whose action does not have the form
\* AtomType[-AtomId]/CollectionType-CollectionId (no `/`, or a `/` followed
\* by a collection part without `-`) the marker is still produced: its
\* category is the whole action string and its profiler label and stats key
\* are absent.
C18_OtherActionsBecomeTheCategory ==
    [][(/\ ReadsEndOfPendingSpan
        /\ IsSome(ActionOf(ReadRecord))
        /\ ~MatchesActionFormat(Unwrap(ActionOf(ReadRecord))))
       => /\ status' = "reading"
          /\ Len(collected') = Len(collected) + 1
          /\ LET m == collected'[Len(collected')]
             IN  /\ m.marker_data.kind = "Span"
                 /\ m.marker_data.category = Unwrap(ActionOf(ReadRecord))
                 /\ m.marker_data.profiler_label = None
                 /\ m.marker_data.stats_label = None]_vars

\* the durations the timing texts of the records stand for, in nanoseconds
ExpectedNanos ==
    (S_5ms :> 5000000) @@ (S_1ms :> 1000000) @@ (S_5us :> 5000) @@ (S_5micro :> 5000)
    @@ (S_1s :> 1000000000) @@ (S_5ns :> 5) @@ (S_1_5ms :> 1500000)

----------------------------------------------------------------------------
(* flush_samples_to_profile, the counter loop.  A CounterOnThread is the    *)
(* record [thread_handle, counter], a Counter the record                    *)
(*   [name, category, description, color, samples]                          *)
(* and a CounterSample the record [timestamp, value, modification_count].   *)
(* The handle of a counter is the number of add_counter calls up to its own.*)

\* the MarkerSchema of CustomGraphMarker::create_marker_type
CustomGraphMarker_schema(counter) ==
    [type_name |-> "CustomGraph-" \o counter.name, fields |-> <<"value">>]

\* the `_` arm of match counter.category: add_counter, then one
\* add_counter_sample per sample
NativeCounterCalls(counter, thread_handle, counter_handle) ==
    <<[op |-> "add_counter", name |-> counter.name, category |-> counter.category,
       description |-> counter.description, color |-> counter.color]>>
    \o [i \in 1..Len(counter.samples) |->
            [op |-> "add_counter_sample", counter_handle |-> counter_handle,
             timestamp |-> counter.samples[i].timestamp,
             value_delta |-> counter.samples[i].value,
             number_of_operations_delta |-> counter.samples[i].modification_count]]

\* the CounterCategory::Custom arm: one add_marker per sample
CustomCounterCalls(counter, thread_handle, marker_type) ==
    [i \in 1..Len(counter.samples) |->
        [op |-> "add_marker", thread_handle |-> thread_handle,
         timing |-> [kind |-> "Instant", start |-> counter.samples[i].timestamp],
         marker |-> [kind |-> "CustomGraphMarker", name |-> counter.name,
                     category |-> "OTHER", marker_type |-> marker_type,
                     value |-> counter.samples[i].value]]]

\* a match that sends every category to the native counter track
CounterCalls_AllNative(counter, thread_handle, marker_type, counter_handle) ==
    NativeCounterCalls(counter, thread_handle, counter_handle)

\* match counter.category { .. }: the calls made on the profile for one counter
CounterCalls(counter, thread_handle, marker_type, counter_handle) ==
    IF counter.category = "Custom"
    THEN CustomCounterCalls(counter, thread_handle, marker_type)
    ELSE NativeCounterCalls(counter, thread_handle, counter_handle)

\* the number of add_counter calls among the calls
CountersAdded(calls) == Cardinality({i \in 1..Len(calls) : calls[i].op = "add_counter"})

\* for CounterOnThread { counter, thread_handle } in counters { .. }: one counter
AssembleCounter ==
    /\ phase \in {"dumped", "counters"}
    /\ handled.markers = Len(markers)
    /\ handled.counters < Len(counters)
    /\ LET counter == counters[handled.counters + 1].counter
           thread_handle == counters[handled.counters + 1].thread_handle
       IN  profile' = [profile EXCEPT
                !.marker_types = IF counter.category = "Custom"
                                 THEN Append(@, CustomGraphMarker_schema(counter))
                                 ELSE @,
                !.calls = @ \o CounterCalls(counter, thread_handle,
                                            Len(profile.marker_types) + 1,
                                            CountersAdded(profile.calls) + 1)]
    /\ handled' = [handled EXCEPT !.counters = @ + 1]
    /\ phase' = "counters"
    /\ UNCHANGED <<unresolved_samples, markers, counters, stats, span_marker_types,
                   event_marker_types, category_handles>>
    /\ UNCHANGED <<regular_lib_mapping_op_queue, jitdump_lib_mapping_op_queues,
                   perf_map_mappings, lib_mappings_hierarchy, sample_timestamp>>
    /\ UNCHANGED <<marker_vars, counter_file_vars>>

CounterCategories == {"Memory", "Bandwidth", "Cpu", "Custom"}

\* the sample lists of the counters: none, one, and two in either order
CounterSampleLists ==
    LET first == [timestamp |-> convert_time(1), value |-> 5, modification_count |-> 1]
        second == [timestamp |-> convert_time(2), value |-> 7, modification_count |-> 3]
    IN  {<<>>, <<first>>, <<first, second>>, <<second, first>>}

\* the counters of the assembled processes
AssemblyCounters ==
    {[thread_handle |-> 1,
      counter |-> [name |-> "heap", category |-> category, description |-> "desc",
                   color |-> Some("blue"), samples |-> samples]] :
        category \in CounterCategories, samples \in CounterSampleLists}

MaxCounters == 2

\* a process with up to MaxCounters counters and no samples or markers
InitCounters ==
    /\ MarkerInit
    /\ ReplayIdle
    /\ unresolved_samples = <<>>
    /\ markers = <<>>
    /\ counters \in UNION {[1..n -> AssemblyCounters] : n \in 0..MaxCounters}
    /\ AssemblyStart
    /\ CounterFileIdle

NextCounters == BeginFlush \/ BeginMarkers \/ DumpStats \/ AssembleCounter

SpecCounters == InitCounters /\ [][NextCounters]_vars

----------------------------------------------------------------------------
(* Properties of the counter loop *)

\* the calls the i-th counter is to produce
CallsOwedFor(i) ==
    LET counter == counters[i].counter
        native == Cardinality({j \in 1..i : counters[j].counter.category # "Custom"})
        custom == Cardinality({j \in 1..i : counters[j].counter.category = "Custom"})
    IN  IF counter.category = "Custom"
        THEN [k \in 1..Len(counter.samples) |->
                [op |-> "add_marker", thread_handle |-> counters[i].thread_handle,
                 timing |-> [kind |-> "Instant", start |-> counter.samples[k].timestamp],
                 marker |-> [kind |-> "CustomGraphMarker", name |-> counter.name,
                             category |-> "OTHER", marker_type |-> custom,
                             value |-> counter.samples[k].value]]]
        ELSE <<[op |-> "add_counter", name |-> counter.name,
                category |-> counter.category, description |-> counter.description,
                color |-> counter.color]>>
             \o [k \in 1..Len(counter.samples) |->
                    [op |-> "add_counter_sample", counter_handle |-> native,
                     timestamp |-> counter.samples[k].timestamp,
                     value_delta |-> counter.samples[k].value,
                     number_of_operations_delta |->
                        counter.samples[k].modification_count]]

\* C20: a counter of category Custom produces exactly one instantaneous
\* marker per sample, at the sample's timestamp and carrying its value, and
\* no native counter track; a counter of any other category produces exactly
\* one add_counter call followed by one add_counter_sample call per sample,
\* in sample order, carrying the sample's (timestamp, value, delta), and no
\* markers.
C20_CounterCallsByCategory ==
    /\ profile.calls = Flatten([i \in 1..handled.counters |-> CallsOwedFor(i)])
    /\ Len(profile.marker_types)
        = Cardinality({i \in 1..handled.counters : counters[i].counter.category = "Custom"})

\* a Custom counter and a native counter, each with two samples, were both
\* handled: two markers, then add_counter and two add_counter_sample calls
C20_Witness ==
    /\ handled.counters = 2
    /\ counters[1].counter.category = "Custom"
    /\ counters[2].counter.category = "Memory"
    /\ Len(counters[1].counter.samples) = 2
    /\ Len(counters[2].counter.samples) = 2
    /\ counters[2].counter.samples[1].timestamp > counters[2].counter.samples[2].timestamp
    /\ [i \in 1..Len(profile.calls) |-> profile.calls[i].op]
            = <<"add_marker", "add_marker", "add_counter",
                "add_counter_sample", "add_counter_sample">>
    /\ profile.calls[4].timestamp = counters[2].counter.samples[1].timestamp

----------------------------------------------------------------------------
(* counter_file.rs.  A counter file is the record [json], the document      *)
(* serde_json reads from it or None when the content is not JSON; a         *)
(* document is a function from keys to values [str], [num] or [arr].  A     *)
(* result with panic = TRUE stands for an unwrap() or panic!() that ends    *)
(* the process.                                                             *)

\* impl From<&str> for CounterCategory with an unknown name read as Custom
CounterCategory_from_UnknownIsCustom(value) ==
    IF value = "Memory" THEN [panic |-> FALSE, category |-> "Memory"]
    ELSE IF value = "Bandwidth" THEN [panic |-> FALSE, category |-> "Bandwidth"]
    ELSE IF value = "CPU" THEN [panic |-> FALSE, category |-> "Cpu"]
    ELSE [panic |-> FALSE, category |-> "Custom"]

\* impl From<&str> for CounterCategory
CounterCategory_from(value) ==
    IF value = "Memory" THEN [panic |-> FALSE, category |-> "Memory"]
    ELSE IF value = "Bandwidth" THEN [panic |-> FALSE, category |-> "Bandwidth"]
    ELSE IF value = "CPU" THEN [panic |-> FALSE, category |-> "Cpu"]
    ELSE IF value = "Custom" THEN [panic |-> FALSE, category |-> "Custom"]
    ELSE [panic |-> TRUE, category |-> "Custom"]

\* get_graph_color with `unspec` read as blue
get_graph_color_UnspecIsBlue(color) ==
    IF color \in {"blue", "unspec"} THEN Some("Blue")
    ELSE IF color = "green" THEN Some("Green")
    ELSE IF color = "grey" THEN Some("Grey")
    ELSE IF color = "ink" THEN Some("Ink")
    ELSE IF color = "magenta" THEN Some("Magenta")
    ELSE IF color = "orange" THEN Some("Orange")
    ELSE IF color = "purple" THEN Some("Purple")
    ELSE IF color = "red" THEN Some("Red")
    ELSE IF color = "teal" THEN Some("Teal")
    ELSE IF color = "yellow" THEN Some("Yellow")
    ELSE None

\* get_graph_color
get_graph_color(color) ==
    IF color = "blue" THEN Some("Blue")
    ELSE IF color = "green" THEN Some("Green")
    ELSE IF color = "grey" THEN Some("Grey")
    ELSE IF color = "ink" THEN Some("Ink")
    ELSE IF color = "magenta" THEN Some("Magenta")
    ELSE IF color = "orange" THEN Some("Orange")
    ELSE IF color = "purple" THEN Some("Purple")
    ELSE IF color = "red" THEN Some("Red")
    ELSE IF color = "teal" THEN Some("Teal")
    ELSE IF color = "yellow" THEN Some("Yellow")
    ELSE IF color = "unspec" THEN None
    ELSE None

\* enum GraphColor
GraphColor ==
    {"Blue", "Green", "Grey", "Ink", "Magenta", "Orange", "Purple", "Red", "Teal", "Yellow"}

\* json[key].as_str(): None for a missing key (Null) and for a non-string
StrAt(json, key) ==
    IF HasKey(json, key) THEN as_str(json[key]) ELSE None

\* Value::as_array
as_array(v) == IF "arr" \in DOMAIN v THEN Some(v.arr) ELSE None

\* Value::as_u64, and as_f64 of the numbers of the model, which are
\* non-negative integers
as_u64(v) == IF "num" \in DOMAIN v THEN Some(v.num) ELSE None

U32Modulus == 2 ^ 16

\* the body of `for sample in json["samples"]`: None stands for a panic
ParseCounterSample(sample) ==
    IF ~IsSome(as_array(sample)) THEN None
    ELSE LET fields == Unwrap(as_array(sample))
         IN  IF \/ Len(fields) < 3
                \/ \E i \in 1..3 : ~IsSome(as_u64(fields[i]))
             THEN None
             ELSE Some([timestamp |-> convert_time(fields[1].num),
                        value |-> fields[2].num,
                        modification_count |-> fields[3].num % U32Modulus])

\* parse_counter_file
parse_counter_file(file) ==
    LET Panic == [panic |-> TRUE, counter |-> None]
    IN  IF ~IsSome(file.json) THEN Panic
        ELSE LET json == Unwrap(file.json)
             IN  IF ~HasKey(json, "samples") \/ ~IsSome(as_array(json["samples"]))
                 THEN Panic
                 ELSE LET raw == Unwrap(as_array(json["samples"]))
                          samples == [i \in 1..Len(raw) |-> ParseCounterSample(raw[i])]
                      IN  IF \/ \E i \in 1..Len(raw) : ~IsSome(samples[i])
                             \/ ~IsSome(StrAt(json, "name"))
                             \/ ~IsSome(StrAt(json, "category"))
                          THEN Panic
                          ELSE IF \/ CounterCategory_from(Unwrap(StrAt(json, "category"))).panic
                                  \/ ~IsSome(StrAt(json, "description"))
                                  \/ ~IsSome(StrAt(json, "color"))
                          THEN Panic
                          ELSE [panic |-> FALSE,
                                counter |-> Some(
                                   [name |-> Unwrap(StrAt(json, "name")),
                                    category |-> CounterCategory_from(
                                        Unwrap(StrAt(json, "category"))).category,
                                    description |-> Unwrap(StrAt(json, "description")),
                                    color |-> get_graph_color(Unwrap(StrAt(json, "color"))),
                                    samples |-> [i \in 1..Len(raw) |-> Unwrap(samples[i])]])]

\* get_counter on a file that opens: Ok(parse_counter_file(f, ..))
GetCounter ==
    /\ get_counter_result = [state |-> "unread"]
    /\ LET r == parse_counter_file(counter_file)
       IN  get_counter_result' =
                IF r.panic THEN [state |-> "panicked"]
                ELSE [state |-> "returned", counter |-> Unwrap(r.counter)]
    /\ UNCHANGED counter_file
    /\ UNCHANGED <<marker_vars, replay_vars, assembly_vars>>

\* the category strings of the counter files: the four names and others
CategoryTexts == {"Memory", "Bandwidth", "CPU", "Custom", "Cpu", "memory", "Other", ""}

\* the color strings of the counter files: the palette names and others
ColorTexts ==
    {"blue", "green", "grey", "ink", "magenta", "orange", "purple", "red", "teal",
     "yellow", "unspec", "Blue", "pink", ""}

\* a JSON string, number and array
JText(s) == [str |-> s]

JArray(values) == [arr |-> values]

\* `[[100,5,1]]`
ExampleSamples == JArray(<<JArray(<<JNum(100), JNum(5), JNum(1)>>)>>)

\* format B documents: {name, category, description, color, samples}
CounterDocuments ==
    {("name" :> JText("heap")) @@ ("category" :> JText(category))
     @@ ("description" :> JText("desc")) @@ ("color" :> JText(color))
     @@ ("samples" :> samples) :
        category \in CategoryTexts, color \in ColorTexts,
        samples \in {JArray(<<>>), ExampleSamples}}

\* the spec's format B example:
\* `{"name":"heap","category":"Memory","color":"blue","samples":[[100,5,1]]}`
ExampleFormatB ==
    [json |-> Some(("name" :> JText("heap")) @@ ("category" :> JText("Memory"))
                   @@ ("color" :> JText("blue")) @@ ("samples" :> ExampleSamples))]

\* the spec's format A example, `Memory,heap,desc,blue` then `100,5,1`: the
\* text is not JSON
ExampleFormatA ==
    [json |-> None, text |-> <<"Memory,heap,desc,blue", "100,5,1">>]

\* the counter files: the documents, documents without a category or a color
\* or with a number for them, and the two examples
CounterFiles ==
    {[json |-> Some(doc)] : doc \in CounterDocuments}
    \cup {[json |-> Some(RemoveKey(doc, key))] :
                doc \in {d \in CounterDocuments : d["category"] = JText("Memory")},
                key \in {"category", "color"}}
    \cup {[json |-> Some(("category" :> JNum(1)) @@ doc)] :
                doc \in {d \in CounterDocuments : d["category"] = JText("Memory")}}
    \cup {ExampleFormatA, ExampleFormatB}

InitCounterFile ==
    /\ MarkerInit
    /\ ReplayIdle
    /\ AssemblyIdle
    /\ counter_file \in CounterFiles
    /\ get_counter_result = [state |-> "unread"]

NextCounterFile == GetCounter

SpecCounterFile == InitCounterFile /\ [][NextCounterFile]_vars

----------------------------------------------------------------------------
(* Properties of the counter decoder *)

GetCounterCalled == get_counter_result.state # "unread"

\* the file is a format B document with all five fields
IsCompleteDocument ==
    IsSome(counter_file.json) /\ Unwrap(counter_file.json) \in CounterDocuments

\* the text of a field of the document, when the file is JSON and has it
FieldText(key) ==
    IF IsSome(counter_file.json) THEN StrAt(Unwrap(counter_file.json), key) ELSE None

\* C21: a counter whose category string is not one of Memory, Bandwidth, CPU,
\* Custom makes decoding fail fast: no Counter record is produced; each of
\* the four valid names decodes to its own category.
C21_UnknownCategoryFailsFast ==
    (GetCounterCalled /\ IsSome(FieldText("category"))) =>
        LET text == Unwrap(FieldText("category"))
            Own == ("Memory" :> "Memory") @@ ("Bandwidth" :> "Bandwidth")
                   @@ ("CPU" :> "Cpu") @@ ("Custom" :> "Custom")
        IN  /\ Cardinality({Own[name] : name \in DOMAIN Own}) = 4
            /\ text \notin DOMAIN Own =>
                    /\ get_counter_result.state = "panicked"
                    /\ "counter" \notin DOMAIN get_counter_result
            /\ (text \in DOMAIN Own /\ IsCompleteDocument) =>
                    /\ get_counter_result.state = "returned"
                    /\ get_counter_result.counter.category = Own[text]

\* a document that is complete but for its category `Cpu`, which is not the
\* name CPU, was read and no Counter came of it
C21_Witness ==
    /\ GetCounterCalled
    /\ IsCompleteDocument
    /\ FieldText("category") = Some("Cpu")
    /\ FieldText("color") = Some("blue")
    /\ get_counter_result = [state |-> "panicked"]

\* the 10 palette names
PaletteNames ==
    {"blue", "green", "grey", "ink", "magenta", "orange", "purple", "red", "teal",
     "yellow"}

\* C22: color decoding is total over strings: each of the 10 palette names
\* decodes to its own distinct color, and every other string, `unspec`
\* included, decodes to "no color" and never to an error.
C22_ColorDecodingIsTotal ==
    /\ Cardinality(PaletteNames) = 10
    /\ \A name \in PaletteNames :
        /\ IsSome(get_graph_color(name))
        /\ Unwrap(get_graph_color(name)) \in GraphColor
    /\ \A a, b \in PaletteNames : a # b => get_graph_color(a) # get_graph_color(b)
    /\ \A text \in ColorTexts \ PaletteNames : get_graph_color(text) = None
    /\ (GetCounterCalled /\ IsCompleteDocument
            /\ Unwrap(FieldText("category")) \in {"Memory", "Bandwidth", "CPU", "Custom"}) =>
            /\ get_counter_result.state = "returned"
            /\ get_counter_result.counter.color =
                    IF Unwrap(FieldText("color")) \in PaletteNames
                    THEN get_graph_color(Unwrap(FieldText("color")))
                    ELSE None

\* a document with the color `unspec` was decoded to a Counter without color
C22_Witness ==
    /\ GetCounterCalled
    /\ FieldText("color") = Some("unspec")
    /\ get_counter_result.state = "returned"
    /\ get_counter_result.counter.color = None
    /\ get_counter_result.counter.name = "heap"

\* C23: the format A example (`Memory,heap,desc,blue` then `100,5,1`) and the
\* format B example
\* (`{"name":"heap","category":"Memory","color":"blue","samples":[[100,5,1]]}`)
\* each decode without error to a Counter with name heap, category Memory,
\* color blue and one sample whose value is 5 and whose modification count
\* is 1.
C23_BothFormatsDecodeAlike ==
    (GetCounterCalled /\ counter_file \in {ExampleFormatA, ExampleFormatB}) =>
        /\ get_counter_result.state = "returned"
        /\ get_counter_result.counter.name = "heap"
        /\ get_counter_result.counter.category = "Memory"
        /\ get_counter_result.counter.color = Some("Blue")
        /\ Len(get_counter_result.counter.samples) = 1
        /\ get_counter_result.counter.samples[1].value = 5
        /\ get_counter_result.counter.samples[1].modification_count = 1

----------------------------------------------------------------------------
(* Properties of repeated process_ops calls, over the sample loop *)

\* this step is one iteration of the sample loop, that is one process_ops call
ProcessOpsCalled == handled'.samples = handled.samples + 1

\* how often an op is in the applied history of a hierarchy
TimesApplied(h, op) == Cardinality({i \in 1..Len(h.applied) : h.applied[i] = op})

\* C24: over process_ops calls with non-decreasing arguments each op of each
\* queue is applied exactly once: read cursors never move backward, a second
\* process_ops(t) with the same t changes nothing, and process_ops(t1)
\* followed by process_ops(t2), t1 <= t2, leaves the same active mapping
\* table as a single process_ops(t2).
C24_EachOpAppliedOnce ==
    [][ProcessOpsCalled =>
        LET before == lib_mappings_hierarchy
            after == lib_mappings_hierarchy'
            t == sample_timestamp'
            single == process_ops(BuildHierarchy(regular_lib_mapping_op_queue,
                                                 jitdump_lib_mapping_op_queues,
                                                 perf_map_mappings), t)
        IN  /\ \A q \in 1..Len(before.cursors) : after.cursors[q] >= before.cursors[q]
            /\ (handled.samples > 0 /\ t = sample_timestamp) => after = before
            /\ after.table = single.table
            /\ \A q \in 1..Len(SourceQueues) : \A i \in 1..Len(SourceQueues[q]) :
                    TimesApplied(after, SourceQueues[q][i])
                        = IF SourceQueues[q][i].timestamp <= t THEN 1 ELSE 0
            /\ Len(after.applied) = Len(OpsUpTo(t))]_vars

\* two samples with different timestamps were handled, ops of two queues
\* were applied, one of them by the first call and one by the second
C24_Witness ==
    /\ handled.samples = 2
    /\ HandlingOrder[1].timestamp_mono < HandlingOrder[2].timestamp_mono
    /\ \E i, j \in 1..Len(lib_mappings_hierarchy.applied) :
        /\ lib_mappings_hierarchy.applied[i].timestamp <= HandlingOrder[1].timestamp_mono
        /\ lib_mappings_hierarchy.applied[j].timestamp > HandlingOrder[1].timestamp_mono
        /\ Rank(lib_mappings_hierarchy.applied[i]) # Rank(lib_mappings_hierarchy.applied[j])

----------------------------------------------------------------------------
(* The two pairing conventions side by side *)

\* the start record of convention c and span id that is pending after the
\* lines read so far, judged from the records of that convention alone: the
\* first start after the last record of c that completed or preceded a start
RECURSIVE PendingStart(_, _, _)
PendingStart(id, c, n) ==
    IF n = 0 THEN None
    ELSE LET before == PendingStart(id, c, n - 1)
         IN  IF IsRecord(n, id, c.start) /\ ~IsSome(before) THEN Some(n)
             ELSE IF IsRecord(n, id, c.end) THEN None
             ELSE before

\* lines s .. s+3 are new, enter, exit, close of span id, and nothing of that
\* id is pending before them
Interleaving(id, s) ==
    /\ s + 3 <= Len(consumed)
    /\ IsRecord(s, id, S_new)
    /\ IsRecord(s + 1, id, S_enter)
    /\ IsRecord(s + 2, id, S_exit)
    /\ IsRecord(s + 3, id, S_close)
    /\ \A c \in Conventions : ~IsSome(PendingStart(id, c, s - 1))

\* C25: the two conventions keep separate pending maps over the shared ids: what
\* is pending in a convention follows from the records of that convention alone,
\* every Span marker pairs a start and an end keyword of its own convention and
\* of one id, and new(i), enter(i), exit(i), close(i) yields one Running marker
\* (enter with exit) and then one Total marker (new with close).
C25_ConventionsPairIndependently ==
    status = "reading" =>
        /\ \A id \in 1..MaxId, c \in Conventions :
            LET pending == PendingStart(id, c, Len(consumed))
            IN  /\ id \in DOMAIN CacheOf(c) <=> IsSome(pending)
                /\ IsSome(pending)
                    => CacheOf(c)[id] = Unwrap(consumed[Unwrap(pending)].json)
        /\ \A k \in 1..Len(collected) :
            \E id \in 1..MaxId, c \in Conventions :
                /\ IsSpanOf(collected[k], c.span_type,
                            collected[k].start_at, collected[k].end_at)
                /\ IsRecord(collected[k].start_at, id, c.start)
                /\ IsRecord(collected[k].end_at, id, c.end)
        /\ \A id \in 1..MaxId, s \in 1..Len(consumed) :
            Interleaving(id, s) =>
                LET ms == CompletedBy(s, s + 3)
                IN  /\ Len(ms) = 2
                    /\ IsSpanOf(ms[1], "Running", s + 1, s + 2)
                    /\ IsSpanOf(ms[2], "Total", s, s + 3)

C25_Witness ==
    /\ Interleaving(1, 1)
    /\ Len(consumed) = 4
    /\ Len(collected) = 2
    /\ status = "reading"

\* the lines read so far that are records of span id with message msg
LinesOf(id, msg) == {j \in 1..Len(consumed) : IsRecord(j, id, msg)}

\* the Span markers of convention c and span id collected so far
SpansOf(id, c) ==
    {k \in 1..Len(collected) :
        /\ collected[k].marker_data.kind = "Span"
        /\ collected[k].marker_data.span_type = c.span_type
        /\ IsRecord(collected[k].start_at, id, c.start)}

\* C27: pairing is one-to-one: every input line is part of at most one marker,
\* every Span marker is built from one start line and one later end line of the
\* same id and convention, a convention has no more Span markers than start
\* lines nor than end lines, and a start that is still pending is part of no
\* marker.
C27_PairingIsOneToOne ==
    status = "reading" =>
        /\ \A j \in 1..Len(consumed) : Cardinality(MarkersFrom(j)) <= 1
        /\ \A k \in 1..Len(collected) :
            /\ collected[k].marker_data.kind = "Span"
            /\ collected[k].start_at < collected[k].end_at
            /\ \E id \in 1..MaxId, c \in Conventions :
                /\ collected[k].marker_data.span_type = c.span_type
                /\ IsRecord(collected[k].start_at, id, c.start)
                /\ IsRecord(collected[k].end_at, id, c.end)
        /\ \A id \in 1..MaxId, c \in Conventions :
            /\ Cardinality(SpansOf(id, c)) <= Cardinality(LinesOf(id, c.start))
            /\ Cardinality(SpansOf(id, c)) <= Cardinality(LinesOf(id, c.end))
            /\ id \in DOMAIN CacheOf(c)
                => /\ CacheOf(c)[id].at \in LinesOf(id, c.start)
                   /\ MarkersFrom(CacheOf(c)[id].at) = {}

\* a completed pair, a dropped second end, and a start left pending
C27_Witness ==
    /\ status = "reading"
    /\ Len(consumed) = 4
    /\ \E c \in Conventions :
        /\ Cardinality(SpansOf(1, c)) = 1
        /\ Cardinality(LinesOf(1, c.end)) = 2
        /\ 1 \in DOMAIN CacheOf(c)

----------------------------------------------------------------------------
(* Plain events and records that are no keyword *)

\* `<id> {"timestamp":"<at>","target":"app","fields":<fields>}`
PlainRecord(at, id, fields) ==
    Line(to_string(id),
         Json(at, Some(JStr(to_string(at))), Some(JStr(S_target)), fields, None))

\* records of id 0 with every message text, with another field beside the
\* message, with no message, and with no `fields` at all
IdZeroLines(at) ==
    { PlainRecord(at, 0, Some("message" :> JStr(msg))) : msg \in Keywords \cup {S_hello} }
    \cup { PlainRecord(at, 0, Some(("message" :> JStr(S_new)) @@ ("a" :> JStr(S_x)))),
           PlainRecord(at, 0, Some("a" :> JStr(S_x))),
           PlainRecord(at, 0, None) }

\* records of span 1: the four keywords, a message that is no keyword, no
\* message, and no `fields` at all
SpanOneLines(at) ==
    { WellFormedLine(at, 1, at, msg) : msg \in Keywords \cup {S_other} }
    \cup { PlainRecord(at, 1, Some("a" :> JStr(S_x))),
           PlainRecord(at, 1, None) }

MaxEventLines == 3

ReadEventLine ==
    /\ Len(consumed) < MaxEventLines
    /\ \E line \in IdZeroLines(Len(consumed) + 1) \cup SpanOneLines(Len(consumed) + 1) :
        ReadLine(line)

NextEvents == ReadEventLine

SpecEvents == InitMarkers /\ [][NextEvents]_vars

\* the step reads one more line, whose id is `id`
ReadsLineOf(id) ==
    /\ status = "reading"
    /\ Len(consumed') = Len(consumed) + 1
    /\ LET ids == ParseIds(consumed'[Len(consumed')].ids)
       IN  IsSome(ids) /\ Unwrap(ids).id = id

\* the record the step reads
RecordRead == Unwrap(consumed'[Len(consumed')].json)

TrackersUnchanged ==
    /\ new_close_tracker' = new_close_tracker
    /\ enter_exit_tracker' = enter_exit_tracker

\* the step yields one Event marker for the record it reads
YieldsEventOf(message) ==
    /\ Len(collected') = Len(collected) + 1
    /\ SubSeq(collected', 1, Len(collected)) = collected
    /\ collected'[Len(collected')].marker_data = [kind |-> "Event"]
    /\ collected'[Len(collected')].message = message
    /\ collected'[Len(collected')].start_at = Len(consumed')

\* C26: a line with id 0 yields one Event marker carrying its fields.message,
\* whatever the message is, the four keywords included, or no marker when the
\* message is absent, and leaves both pending maps unchanged; a line with
\* id > 0 whose message is none of the four keywords yields no marker and
\* leaves both maps unchanged.
C26_IdZeroIsAPlainEvent ==
    [][/\ ReadsLineOf(0) =>
            /\ status' = "reading"
            /\ TrackersUnchanged
            /\ IF IsSome(MessageOf(RecordRead))
               THEN YieldsEventOf(Unwrap(MessageOf(RecordRead)))
               ELSE collected' = collected
       /\ ReadsLineOf(1) /\ (\A msg \in Keywords : MessageOf(RecordRead) # Some(msg))
            => NothingYielded]_vars

\* the same for records that hold a `fields` object
C26_IdZeroWithFieldsIsAPlainEvent ==
    [][/\ ReadsLineOf(0) /\ IsSome(RecordRead.fields) =>
            /\ status' = "reading"
            /\ TrackersUnchanged
            /\ IF IsSome(MessageOf(RecordRead))
               THEN YieldsEventOf(Unwrap(MessageOf(RecordRead)))
               ELSE collected' = collected
       /\ ReadsLineOf(1) /\ (\A msg \in Keywords : MessageOf(RecordRead) # Some(msg))
            => NothingYielded]_vars

----------------------------------------------------------------------------
(* Stack resolution, frame by frame *)

\* the raw frames of the k-th sample handled, and the number of label frames
\* in front of them
RawFramesOf(k) == InternedStacks[HandlingOrder[k].stack]

LabelFramesOf(k) == IF IsSome(HandlingOrder[k].extra_label_frame) THEN 1 ELSE 0

\* the mappings active at the timestamp of the k-th sample that hold the address
ActiveAt(k, address) ==
    Holding(ApplyAll(<<>>, OpsUpTo(HandlingOrder[k].timestamp_mono)), address)

\* the output frames of the k-th call that the depth limiter passed unchanged
PassedFrames(k) ==
    IF Len(RawFramesOf(k)) + LabelFramesOf(k) <= MaxStackDepth
    THEN Len(RawFramesOf(k)) + LabelFramesOf(k)
    ELSE MaxStackDepth - 1

\* the output frame is the one the raw frame resolves to at the k-th sample
IsFrameOf(out, raw, k) ==
    IF raw.kind = "kernel"
    THEN out.frame = "kernel" /\ out.category = "kernel" /\ out.address = raw.address
    ELSE /\ out.category = "user"
         /\ IF ActiveAt(k, raw.address) = {}
            THEN out.frame = "unknown" /\ out.address = raw.address
            ELSE /\ out.frame = "library"
                 /\ \E m \in ActiveAt(k, raw.address) :
                     /\ out.info = m.info
                     /\ out.relative_address = raw.address - m.start

\* C31: stack resolution never fails on an unresolved address: every input
\* frame yields one output frame in the input's leaf-to-root order, an address
\* no active mapping covers as an unknown frame, kernel frames with the kernel
\* category and user frames with the user category, the label frame, when
\* given, in front; before depth limiting the output has as many frames as the
\* input, plus one for a label frame.
C31_EveryFrameResolvesToOneFrame ==
    /\ Len(profile.calls) = handled.samples
    /\ \A k \in 1..Len(profile.calls) :
        LET output == profile.calls[k].frames
            raw_frames == RawFramesOf(k)
            label == LabelFramesOf(k)
        IN  /\ Len(convert_stack(raw_frames, lib_mappings_hierarchy,
                                 HandlingOrder[k].extra_label_frame))
                = Len(raw_frames) + label
            /\ Len(output) >= PassedFrames(k)
            /\ Len(raw_frames) + label <= MaxStackDepth
                => Len(output) = Len(raw_frames) + label
            /\ label = 1
                => /\ output[1].frame = "label"
                   /\ output[1].label = Unwrap(HandlingOrder[k].extra_label_frame)
            /\ \A i \in 1..Len(raw_frames) :
                i + label <= PassedFrames(k)
                    => IsFrameOf(output[i + label], raw_frames[i], k)

\* a stack with a kernel frame, a resolved frame and an unresolved frame was
\* output, and so was a stack with a label frame in front
C31_Witness ==
    /\ handled.samples = 2
    /\ \E k \in 1..2 :
        /\ LabelFramesOf(k) = 0
        /\ Len(profile.calls[k].frames) = 3
        /\ profile.calls[k].frames[1].frame = "kernel"
        /\ profile.calls[k].frames[2].frame = "library"
        /\ profile.calls[k].frames[3].frame = "unknown"
    /\ \E k \in 1..2 :
        /\ LabelFramesOf(k) = 1
        /\ Len(profile.calls[k].frames) = 2
        /\ profile.calls[k].frames[1].frame = "label"
        /\ profile.calls[k].frames[2].frame = "unknown"

====
